---- MODULE Spec2Model ----
(***************************************************************************)
(* Budget tracker backend: CSV ingestion (budget/views.py), the schema     *)
(* mapper and its parsers (budget/csv_utils.py) and the cash-flow reports  *)
(* (budget/views.py), modelled as state machines over the stored rows.     *)
(*                                                                         *)
(* Conventions                                                             *)
(*   - A Python string is a sequence of one-character strings.             *)
(*   - Python None / SQL NULL is the empty tuple None; a present value x   *)
(*     is the one-element tuple Some(x).                                   *)
(*   - A column name of a mapping is a TLA+ string; NoCol ("") stands for  *)
(*     a key that is null or absent (both are falsy in the code).          *)
(*   - A Decimal is [fin, v]: fin = FALSE for NaN/Infinity, otherwise v is *)
(*     the value in hundredths (the amount column holds 2 decimal places). *)
(***************************************************************************)
EXTENDS Integers, Sequences, FiniteSets, TLC

\* ------------------------------------------------------------------------
\* Bounds of the model
\* ------------------------------------------------------------------------
\* Largest number of times the mapper is run on one transaction (SpecMapper).
MaxApplications == 2
\* Largest number of stored transactions (SpecReport).
MaxTransactions == 3
\* Largest number of data lines in an uploaded file and of uploads (Spec).
MaxLines == 2
MaxUploads == 2
\* Transactions whose raw_data a PATCH has replaced.
MaxEdits == 1
\* Largest number of transactions of the tables the backfill votes on
\* (SpecBackfill), the worked example of eight votes aside.
MaxBackfillRows == 3
MaxStatements == 3
MaxDay == 67
\* chunk_size of the backfill commands (500 in the source), scaled so that a
\* table of MaxBackfillRows transactions is written in several chunks.
chunk_size == 2
\* Largest number of classifications and of subclassifications ever created
\* (SpecTaxonomy).
MaxClassifications == 2
MaxSubClassifications == 2

\* ------------------------------------------------------------------------
\* Optional values and strings
\* ------------------------------------------------------------------------
None == <<>>
Some(x) == <<x>>
NoCol == ""

Digits == <<"0", "1", "2", "3", "4", "5", "6", "7", "8", "9">>
IsDigit(c) == \E i \in 1..10 : Digits[i] = c
DigitVal(c) == (CHOOSE i \in 1..10 : Digits[i] = c) - 1

\* str.strip(): whitespace off both ends.
Whitespace == {" ", "\t"}
RECURSIVE LStrip(_)
LStrip(s) == IF s # <<>> /\ Head(s) \in Whitespace THEN LStrip(Tail(s)) ELSE s
RECURSIVE RStrip(_)
RStrip(s) ==
    IF s # <<>> /\ s[Len(s)] \in Whitespace THEN RStrip(SubSeq(s, 1, Len(s) - 1)) ELSE s
Strip(s) == RStrip(LStrip(s))

\* str.replace(c, ""): every occurrence of the characters of cs removed.
RECURSIVE Remove(_, _)
Remove(s, cs) ==
    IF s = <<>> THEN <<>>
    ELSE IF Head(s) \in cs THEN Remove(Tail(s), cs)
    ELSE <<Head(s)>> \o Remove(Tail(s), cs)

\* The value of a run of decimal digits.
RECURSIVE DigitsValue(_, _)
DigitsValue(s, acc) ==
    IF s = <<>> THEN acc ELSE DigitsValue(Tail(s), 10 * acc + DigitVal(Head(s)))
AllDigits(s) == \A i \in 1..Len(s) : IsDigit(s[i])

\* ------------------------------------------------------------------------
\* _parse_amount (csv_utils.py 43-53)
\* ------------------------------------------------------------------------
DecimalPlaces == 2
Finite(v) == [fin |-> TRUE, v |-> v]
NotFinite == [fin |-> FALSE, v |-> 0]

LowerCase(c) ==
    CASE c = "N" -> "n" [] c = "A" -> "a" [] c = "I" -> "i" [] c = "F" -> "f"
      [] c = "T" -> "t" [] c = "Y" -> "y" [] OTHER -> c
Lower(s) == [i \in 1..Len(s) |-> LowerCase(s[i])]

\* decimal.Decimal(str) on the unsigned part: digits with an optional point
\* and at most DecimalPlaces fraction digits, or one of the special values.
UnsignedDecimal(s) ==
    IF Lower(s) \in {<<"n", "a", "n">>, <<"i", "n", "f">>,
                     <<"i", "n", "f", "i", "n", "i", "t", "y">>}
    THEN Some(NotFinite)
    ELSE LET dots == {i \in 1..Len(s) : s[i] = "."} IN
         IF dots = {}
         THEN IF s # <<>> /\ AllDigits(s) THEN Some(Finite(100 * DigitsValue(s, 0))) ELSE None
         ELSE IF Cardinality(dots) > 1 THEN None
         ELSE LET p == CHOOSE i \in dots : TRUE
                  ip == SubSeq(s, 1, p - 1)
                  fp == SubSeq(s, p + 1, Len(s))
              IN IF Len(ip) + Len(fp) = 0 \/ ~AllDigits(ip) \/ ~AllDigits(fp)
                    \/ Len(fp) > DecimalPlaces
                 THEN None
                 ELSE Some(Finite(100 * DigitsValue(ip, 0)
                                  + (IF Len(fp) = 1 THEN 10 ELSE 1) * DigitsValue(fp, 0)))

Negate(d) == IF d.fin THEN Finite(0 - d.v) ELSE d
Abs(d) == IF d.fin /\ d.v < 0 THEN Finite(0 - d.v) ELSE d
Minus(a, b) == IF a.fin /\ b.fin THEN Finite(a.v - b.v) ELSE NotFinite

PyDecimal(s) ==
    IF s # <<>> /\ Head(s) = "-"
    THEN LET u == UnsignedDecimal(Tail(s)) IN IF u = None THEN None ELSE Some(Negate(u[1]))
    ELSE IF s # <<>> /\ Head(s) = "+" THEN UnsignedDecimal(Tail(s))
    ELSE UnsignedDecimal(s)

\* value is None (the column is missing) or Some(cell text).
_parse_amount(value) ==
    IF value = None THEN None
    ELSE LET cleaned == Remove(Strip(value[1]), {",", "$", " "}) IN
         IF cleaned = <<>> THEN None ELSE PyDecimal(cleaned)

\* ------------------------------------------------------------------------
\* _parse_date (csv_utils.py 22-40)
\* ------------------------------------------------------------------------
\* A strptime format is a sequence of tokens: a directive ("Y", "m", "d",
\* "y", "H", "M", "S") or a literal character.
Directives == {"Y", "m", "d", "y", "H", "M", "S"}
\* formats with the day-first slash pattern tried before the month-first one.
formats_day_first == <<
    <<"Y", "-", "m", "-", "d">>,
    <<"d", "/", "m", "/", "Y">>,
    <<"m", "/", "d", "/", "y">>,
    <<"Y", "-", "m", "-", "d", "T", "H", ":", "M", ":", "S">>,
    <<"m", "-", "d", "-", "Y">>,
    <<"m", "/", "d", "/", "Y">> >>

formats == <<
    <<"Y", "-", "m", "-", "d">>,
    <<"m", "/", "d", "/", "Y">>,
    <<"m", "/", "d", "/", "y">>,
    <<"Y", "-", "m", "-", "d", "T", "H", ":", "M", ":", "S">>,
    <<"m", "-", "d", "-", "Y">>,
    <<"d", "/", "m", "/", "Y">> >>

\* The text a directive consumes: everything up to the next literal of the
\* format (the directives match digits only, the literals are not digits).
RECURSIVE TakeUntil(_, _)
TakeUntil(s, stop) ==
    IF s = <<>> \/ Head(s) = stop THEN <<>> ELSE <<Head(s)>> \o TakeUntil(Tail(s), stop)

\* The value a directive reads from its text, as strptime's patterns allow:
\* %Y four digits, %y two digits (69-99 -> 19xx, 00-68 -> 20xx), %m 1..12,
\* %d 1..31 (one or two digits, or a space and a digit), %H 0..23, %M 0..59,
\* %S 0..61.
FieldValue(tok, run) ==
    LET n == DigitsValue(run, 0)
        short == Len(run) \in {1, 2} /\ AllDigits(run)
    IN CASE tok = "Y" -> IF Len(run) = 4 /\ AllDigits(run) THEN Some(n) ELSE None
         [] tok = "y" -> IF Len(run) = 2 /\ AllDigits(run)
                         THEN Some(IF n >= 69 THEN 1900 + n ELSE 2000 + n) ELSE None
         [] tok = "m" -> IF short /\ n \in 1..12 THEN Some(n) ELSE None
         [] tok = "d" -> IF short /\ n \in 1..31 THEN Some(n)
                         ELSE IF Len(run) = 2 /\ run[1] = " " /\ IsDigit(run[2]) /\ run[2] # "0"
                              THEN Some(DigitVal(run[2])) ELSE None
         [] tok = "H" -> IF short /\ n \in 0..23 THEN Some(n) ELSE None
         [] tok = "M" -> IF short /\ n \in 0..59 THEN Some(n) ELSE None
         [] tok = "S" -> IF short /\ n \in 0..61 THEN Some(n) ELSE None

NoFields == [Y |-> 1900, m |-> 1, d |-> 1, H |-> 0, M |-> 0, S |-> 0]

RECURSIVE MatchFormat(_, _, _)
MatchFormat(s, fmt, acc) ==
    IF fmt = <<>> THEN (IF s = <<>> THEN Some(acc) ELSE None)
    ELSE LET tok == Head(fmt) IN
         IF tok \in Directives
         THEN LET run == IF Len(fmt) > 1 THEN TakeUntil(s, fmt[2]) ELSE s
                  val == FieldValue(tok, run)
                  key == IF tok = "y" THEN "Y" ELSE tok
              IN IF val = None THEN None
                 ELSE MatchFormat(SubSeq(s, Len(run) + 1, Len(s)), Tail(fmt),
                                  [acc EXCEPT ![key] = val[1]])
         ELSE IF s # <<>> /\ Head(s) = tok THEN MatchFormat(Tail(s), Tail(fmt), acc)
              ELSE None

IsLeap(y) == (y % 4 = 0 /\ y % 100 # 0) \/ y % 400 = 0
DaysInMonth(y, m) ==
    IF m = 2 THEN (IF IsLeap(y) THEN 29 ELSE 28)
    ELSE IF m \in {4, 6, 9, 11} THEN 30 ELSE 31

\* datetime.strptime(value, fmt): None stands for the ValueError.
strptime(s, fmt) ==
    LET f == MatchFormat(s, fmt, NoFields) IN
    IF f = None THEN None
    ELSE IF f[1].Y < 1 \/ f[1].d > DaysInMonth(f[1].Y, f[1].m) \/ f[1].S > 59 THEN None
    ELSE Some([year |-> f[1].Y, month |-> f[1].m, day |-> f[1].d,
               hour |-> f[1].H, minute |-> f[1].M, second |-> f[1].S])

\* The loop over the formats: the first that parses wins.
RECURSIVE TryFormats(_, _)
TryFormats(s, i) ==
    IF i > Len(formats) THEN None
    ELSE LET r == strptime(s, formats[i]) IN
         IF r # None THEN r ELSE TryFormats(s, i + 1)

_parse_date(value) ==
    IF value = None \/ value[1] = <<>> \/ Strip(value[1]) = <<>> THEN None
    ELSE TryFormats(Strip(value[1]), 1)

\* ------------------------------------------------------------------------
\* apply_schema_to_transaction (csv_utils.py 56-127)
\* ------------------------------------------------------------------------
\* get_raw: the cell of the column the mapping names for the field, None when
\* the mapping names no column or the row has no such column.
get_raw(raw, mapping, field_name) ==
    LET col == mapping[field_name] IN
    IF col # NoCol /\ col \in DOMAIN raw THEN Some(raw[col]) ELSE None

\* str(x).strip() if x else None
StripOrNone(cell) ==
    IF cell # None /\ cell[1] # <<>> THEN Some(Strip(cell[1])) ELSE None

\* raw.get(col) guarded by "col and col in raw" (lines 114-115)
SplitCell(raw, col) ==
    IF col # NoCol /\ col \in DOMAIN raw THEN _parse_amount(Some(raw[col])) ELSE None

\* SplitAmount with the net taken the wrong way round (debit - credit).
SplitAmountSwapped(debit_val, credit_val) ==
    IF debit_val # None /\ credit_val # None THEN Some(Minus(debit_val[1], credit_val[1]))
    ELSE IF debit_val # None THEN Some(Negate(Abs(debit_val[1])))
    ELSE IF credit_val # None THEN Some(Abs(credit_val[1]))
    ELSE None

\* The split debit/credit branch (lines 110-125).
SplitAmount(debit_val, credit_val) ==
    IF debit_val # None /\ credit_val # None THEN Some(Minus(credit_val[1], debit_val[1]))
    ELSE IF debit_val # None THEN Some(Negate(Abs(debit_val[1])))
    ELSE IF credit_val # None THEN Some(Abs(credit_val[1]))
    ELSE None

\* SingleAmount with the two sign modes exchanged.
SingleAmountFlipped(raw_amount, amount_format) ==
    IF raw_amount # None
    THEN (IF amount_format = "debit_is_positive" THEN raw_amount
          ELSE Some(Negate(raw_amount[1])))
    ELSE None

\* The single amount column branch (lines 98-108).
SingleAmount(raw_amount, amount_format) ==
    IF raw_amount # None
    THEN (IF amount_format = "debit_is_negative" THEN raw_amount
          ELSE Some(Negate(raw_amount[1])))
    ELSE None

MappedAmount(raw, schema) ==
    IF schema.amount_column_format \in {"debit_is_negative", "debit_is_positive"}
    THEN SingleAmount(_parse_amount(get_raw(raw, schema.schema, "amount")),
                      schema.amount_column_format)
    ELSE SplitAmount(SplitCell(raw, schema.debit_column),
                     SplitCell(raw, schema.credit_column))

\* AssignMapped with "amount +=" in place of "amount =": the mapped amount is
\* added to the amount the row already holds.
AssignMappedAccumulating(txn, schema) ==
    LET raw == txn.raw_data
        mapping == schema.schema
        m == MappedAmount(raw, schema)
    IN [txn EXCEPT
          !.transaction_date = _parse_date(get_raw(raw, mapping, "transaction_date")),
          !.posted_date = _parse_date(get_raw(raw, mapping, "posted_date")),
          !.description = StripOrNone(get_raw(raw, mapping, "description")),
          !.description_2 = StripOrNone(get_raw(raw, mapping, "description_2")),
          !.category = StripOrNone(get_raw(raw, mapping, "category")),
          !.amount = IF m # None /\ txn.amount # None /\ m[1].fin
                     THEN Some(Finite(txn.amount[1].v + m[1].v)) ELSE m]

\* The transaction object after the assignments of lines 86-125.
AssignMapped(txn, schema) ==
    LET raw == txn.raw_data
        mapping == schema.schema
    IN [txn EXCEPT
          !.transaction_date = _parse_date(get_raw(raw, mapping, "transaction_date")),
          !.posted_date = _parse_date(get_raw(raw, mapping, "posted_date")),
          !.description = StripOrNone(get_raw(raw, mapping, "description")),
          !.description_2 = StripOrNone(get_raw(raw, mapping, "description_2")),
          !.category = StripOrNone(get_raw(raw, mapping, "category")),
          !.amount = MappedAmount(raw, schema)]

\* transaction.save() (line 127) writes every column of the row. The amount
\* column is DecimalField(max_digits=12, decimal_places=2) (models.py 123):
\* preparing a NaN or an Infinity for it raises, and nothing is written.
SaveRaises(txn) == txn.amount # None /\ ~txn.amount[1].fin

\* A call that stores a fresh row of the raw data, as the upload creates it,
\* and maps that one.
apply_schema_to_fresh_transaction(txn, schema) ==
    LET fresh == [f \in DOMAIN txn |->
                    IF f \in {"account", "file_upload", "raw_data"} THEN txn[f] ELSE None]
        obj == AssignMapped(fresh, schema)
    IN IF SaveRaises(obj) THEN [raised |-> TRUE, row |-> txn]
       ELSE [raised |-> FALSE, row |-> obj]

\* The outcome of one call: raised, and the row as stored afterwards.
apply_schema_to_transaction(txn, schema) ==
    LET obj == AssignMapped(txn, schema) IN
    IF SaveRaises(obj) THEN [raised |-> TRUE, row |-> txn]
    ELSE [raised |-> FALSE, row |-> obj]

\* ------------------------------------------------------------------------
\* State
\* ------------------------------------------------------------------------
\* accounts, file_uploads, transactions, location_classifications and
\* location_subclassifications are the tables of models.py, statements the
\* table of the Statement model: each a function from the ids of the stored
\* (committed) rows to the row. sequences[table] is the last id the
\* table's AutoField handed out. response is the outcome of the last request
\* or call; applications[t] counts the calls of the mapper on transaction t,
\* whether they returned or raised. inflight holds the local state of the
\* requests and commands that have started and not ended: the rows they
\* read, the writes of their open atomic block, their position.
VARIABLES accounts, file_uploads, transactions, location_classifications,
          location_subclassifications, response, applications,
          statements, sequences, inflight

vars == <<accounts, file_uploads, transactions, location_classifications,
          location_subclassifications, response, applications,
          statements, sequences, inflight>>

NoRows == <<>>
NoResponse == [op |-> "none"]

\* The value of sequences while no row was ever deleted: the ids of a table
\* are 1..n.
Sequences ==
    [transactions |-> Cardinality(DOMAIN transactions),
     file_uploads |-> Cardinality(DOMAIN file_uploads),
     location_classifications |-> Cardinality(DOMAIN location_classifications),
     location_subclassifications |-> Cardinality(DOMAIN location_subclassifications),
     statements |-> Cardinality(DOMAIN statements)]

\* Transaction(account=..., file_upload=..., raw_data=...) (views.py 95-99):
\* every other column is null (models.py 114-130).
NewTransaction(account, file_upload, raw_data) ==
    [account |-> account, file_upload |-> file_upload,
     transaction_date |-> None, posted_date |-> None,
     description |-> None, description_2 |-> None,
     category |-> None, subcategory |-> None, amount |-> None,
     raw_data |-> raw_data,
     location_classification |-> None, location_subclassification |-> None,
     time_classification |-> None, person_classification |-> None]

\* The six fields the mapper assigns.
MappedFields(txn) ==
    <<txn.transaction_date, txn.posted_date, txn.description,
      txn.description_2, txn.category, txn.amount>>

\* ------------------------------------------------------------------------
\* SpecMapper: the mapper applied to one stored transaction
\* ------------------------------------------------------------------------
\* Cells of the Amt, Debit and Credit columns of the sample rows.
AmtCells ==
    {<<"1", "0", "0">>,
     <<"0">>,
     <<"3", "0">>,
     <<"-", "5", "0">>,
     <<"5", "0">>,
     <<>>,
     <<"a", "b", "c">>,
     <<"N", "a", "N">>,
     <<" ", "$", "1", ",", "2", "3", "4", ".", "5", "0", " ">>}
DebitCells ==
    {<<"1", "0", "0">>,
     <<"0">>,
     <<"-", "5", "0">>,
     <<>>,
     <<"N", "a", "N">>}
CreditCells ==
    {<<"0">>,
     <<"1", "0", "0">>,
     <<"3", "0">>,
     <<"-", "5", "0">>,
     <<>>}

\* The date and text cells of a sample row: well-formed, blank, odd.
RowProfiles ==
    {[Date |-> <<"2", "0", "2", "5", "-", "0", "1", "-", "1", "5">>, Posted |-> <<"0", "3", "/", "0", "4", "/", "2", "0", "2", "5">>, Desc |-> <<" ", "C", "o", "f", "f", "e", "e", " ">>, Memo |-> <<"x">>, Cat |-> <<"F", "o", "o", "d">>],
     [Date |-> <<>>, Posted |-> <<" ", " ">>, Desc |-> <<>>, Memo |-> <<>>, Cat |-> <<" ">>],
     [Date |-> <<"1", "3", "/", "0", "4", "/", "2", "0", "2", "5">>, Posted |-> <<"0", "2", "/", "3", "0", "/", "2", "0", "2", "5">>, Desc |-> <<" ", " ">>, Memo |-> <<"n", "/", "a", " ">>, Cat |-> <<"N", "/", "A">>]}

MakeRow(p, amt, debit, credit) ==
    [Date |-> p.Date, Posted |-> p.Posted, Desc |-> p.Desc, Memo |-> p.Memo,
     Cat |-> p.Cat, Amt |-> amt, Debit |-> debit, Credit |-> credit]

MapperRows ==
    {MakeRow(p, a, d, c) : p \in RowProfiles, a \in AmtCells,
                           d \in DebitCells, c \in CreditCells}

\* The field -> column tables of the sample mappings; "Nope" is a column no
\* row has.
FieldMappings ==
    {[transaction_date |-> "Date", posted_date |-> "Posted", description |-> "Desc",
      description_2 |-> "Memo", category |-> "Cat"],
     [transaction_date |-> NoCol, posted_date |-> NoCol, description |-> NoCol,
      description_2 |-> NoCol, category |-> NoCol],
     [transaction_date |-> "Posted", posted_date |-> "Nope", description |-> "Cat",
      description_2 |-> "Nope", category |-> "Desc"]}

\* The amount configurations of the sample mappings.
AmountConfigs ==
    {[amount |-> "Amt", amount_column_format |-> "debit_is_negative",
      debit_column |-> NoCol, credit_column |-> NoCol],
     [amount |-> "Amt", amount_column_format |-> "debit_is_positive",
      debit_column |-> NoCol, credit_column |-> NoCol],
     [amount |-> "Amt", amount_column_format |-> "debit_is_negative",
      debit_column |-> "Debit", credit_column |-> "Credit"],
     [amount |-> "Nope", amount_column_format |-> "debit_is_positive",
      debit_column |-> "Debit", credit_column |-> "Credit"],
     [amount |-> NoCol, amount_column_format |-> NoCol,
      debit_column |-> "Debit", credit_column |-> "Credit"],
     [amount |-> "Amt", amount_column_format |-> NoCol,
      debit_column |-> "Debit", credit_column |-> NoCol],
     [amount |-> NoCol, amount_column_format |-> NoCol,
      debit_column |-> "Nope", credit_column |-> "Credit"],
     [amount |-> "Amt", amount_column_format |-> NoCol,
      debit_column |-> NoCol, credit_column |-> NoCol]}

MakeSchema(f, a) ==
    [schema |-> [transaction_date |-> f.transaction_date, posted_date |-> f.posted_date,
                 description |-> f.description, description_2 |-> f.description_2,
                 category |-> f.category, amount |-> a.amount],
     amount_column_format |-> a.amount_column_format,
     debit_column |-> a.debit_column, credit_column |-> a.credit_column]

MapperSchemas == {MakeSchema(f, a) : f \in FieldMappings, a \in AmountConfigs}

\* What the six mapped fields may hold before the mapper runs: nothing (a
\* freshly ingested row) or the values of an earlier edit.
EditedDate == [year |-> 2024, month |-> 12, day |-> 31, hour |-> 0, minute |-> 0, second |-> 0]
PriorTransactions(raw) ==
    {NewTransaction(1, None, raw),
     [NewTransaction(1, None, raw) EXCEPT
        !.transaction_date = Some(EditedDate), !.posted_date = Some(EditedDate),
        !.description = Some(<<"o", "l", "d">>), !.description_2 = Some(<<"o", "l", "d">>),
        !.category = Some(<<"o", "l", "d">>), !.subcategory = Some(<<"s", "u", "b">>),
        !.amount = Some(Finite(77700)),
        !.file_upload = Some(1),
        !.location_classification = Some(1), !.location_subclassification = Some(1),
        !.time_classification = Some(1), !.person_classification = Some(1)]}

InitMapper ==
    /\ \E s \in MapperSchemas :
         accounts = [a \in {1} |-> [type |-> "checking", file_upload_schema |-> Some(s)]]
    /\ \E raw \in MapperRows : \E txn \in PriorTransactions(raw) :
         transactions = [t \in {1} |-> txn]
    /\ file_uploads =
         IF transactions[1].file_upload = None THEN NoRows
         ELSE [u \in {1} |-> [account |-> 1, transaction_count |-> 1,
                              status |-> "completed", errors |-> None]]
    /\ location_classifications =
         IF transactions[1].location_classification = None THEN NoRows
         ELSE [c \in {1} |-> [name |-> <<"o", "l", "d">>, type |-> "expense"]]
    /\ location_subclassifications =
         IF transactions[1].location_subclassification = None THEN NoRows
         ELSE [b \in {1} |-> [location_classification |-> 1,
                              name |-> <<"s", "u", "b">>]]
    /\ response = NoResponse
    /\ applications = [t \in {1} |-> 0]
    /\ statements = NoRows
    /\ sequences = Sequences
    /\ inflight = NoRows

\* One call apply_schema_to_transaction(txn, account.file_upload_schema).
MapperApply(t) ==
    /\ applications[t] < MaxApplications
    /\ LET txn == transactions[t]
           schema == accounts[txn.account].file_upload_schema[1]
           out == apply_schema_to_transaction(txn, schema)
       IN /\ transactions' = [transactions EXCEPT ![t] = out.row]
          /\ response' = [op |-> "apply", txn |-> t, raised |-> out.raised]
          /\ applications' = [applications EXCEPT ![t] = @ + 1]
    /\ UNCHANGED <<accounts, file_uploads, location_classifications,
                   location_subclassifications, statements, sequences, inflight>>

NextMapper == \E t \in DOMAIN transactions : MapperApply(t)

SpecMapper == InitMapper /\ [][NextMapper]_vars

\* ------------------------------------------------------------------------
\* Properties of the mapper (SpecMapper)
\* ------------------------------------------------------------------------
\* The mapping of the account that owns transaction t.
SchemaOf(t) == accounts[transactions[t].account].file_upload_schema[1]
\* The mapper was the last call, on t, and returned normally.
Mapped(t) == response.op = "apply" /\ response.txn = t /\ ~response.raised
\* The parsed cell of a named column of t's row, None when the column is
\* not named or not in the row.
ParsedCell(t, col) ==
    IF col = NoCol \/ col \notin DOMAIN transactions[t].raw_data THEN None
    ELSE _parse_amount(Some(transactions[t].raw_data[col]))
AbsInt(n) == IF n < 0 THEN 0 - n ELSE n

\* C1: in split debit/credit mode the stored amount is credit - debit when
\* both cells parse, -|debit| when only the debit cell parses, |credit| when
\* only the credit cell parses and null when neither parses; debit=100 with
\* credit=0 gives -100, debit=0 with credit=100 gives 100, debit=100 with
\* credit=30 gives -70.
C1_SplitDebitCredit ==
    \A t \in DOMAIN transactions :
      (Mapped(t) /\ SchemaOf(t).amount_column_format = NoCol) =>
        LET d == ParsedCell(t, SchemaOf(t).debit_column)
            c == ParsedCell(t, SchemaOf(t).credit_column)
            amount == transactions[t].amount
            raw == transactions[t].raw_data
            both == SchemaOf(t).debit_column = "Debit" /\ SchemaOf(t).credit_column = "Credit"
        IN /\ (d # None /\ c # None) => amount = Some(Finite(c[1].v - d[1].v))
           /\ (d # None /\ c = None) => amount = Some(Finite(0 - AbsInt(d[1].v)))
           /\ (d = None /\ c # None) => amount = Some(Finite(AbsInt(c[1].v)))
           /\ (d = None /\ c = None) => amount = None
           /\ (both /\ raw.Debit = <<"1", "0", "0">> /\ raw.Credit = <<"0">>)
                 => amount = Some(Finite(-10000))
           /\ (both /\ raw.Debit = <<"0">> /\ raw.Credit = <<"1", "0", "0">>)
                 => amount = Some(Finite(10000))
           /\ (both /\ raw.Debit = <<"1", "0", "0">> /\ raw.Credit = <<"3", "0">>)
                 => amount = Some(Finite(-7000))

\* C1 witness: a row with debit 100 and credit 30 mapped in split mode.
C1_Witness ==
    \E t \in DOMAIN transactions :
      /\ Mapped(t) /\ SchemaOf(t).amount_column_format = NoCol
      /\ SchemaOf(t).debit_column = "Debit" /\ SchemaOf(t).credit_column = "Credit"
      /\ transactions[t].raw_data.Debit = <<"1", "0", "0">>
      /\ transactions[t].raw_data.Credit = <<"3", "0">>
      /\ transactions[t].amount = Some(Finite(-7000))

\* C2: in single-column mode the stored amount is the parsed amount cell
\* under debit_is_negative, its negation under debit_is_positive and null
\* when the cell is missing or does not parse, whatever debit_column and
\* credit_column name.
C2_SingleColumn ==
    \A t \in DOMAIN transactions :
      (Mapped(t) /\ SchemaOf(t).amount_column_format \in {"debit_is_negative", "debit_is_positive"}) =>
        LET p == ParsedCell(t, SchemaOf(t).schema.amount)
            amount == transactions[t].amount
            fmt == SchemaOf(t).amount_column_format
            raw == transactions[t].raw_data
        IN /\ (p = None) => amount = None
           /\ (p # None /\ fmt = "debit_is_negative") => amount = p
           /\ (p # None /\ fmt = "debit_is_positive") => amount = Some(Finite(0 - p[1].v))
           /\ (SchemaOf(t).schema.amount = "Amt" /\ raw.Amt = <<"5", "0">> /\ fmt = "debit_is_positive")
                 => amount = Some(Finite(-5000))
           /\ (SchemaOf(t).schema.amount = "Amt" /\ raw.Amt = <<"-", "5", "0">> /\ fmt = "debit_is_negative")
                 => amount = Some(Finite(-5000))

\* C2 witness: raw value 50 mapped under debit_is_positive while the mapping
\* also names a debit and a credit column that hold other amounts.
C2_Witness ==
    \E t \in DOMAIN transactions :
      /\ Mapped(t) /\ SchemaOf(t).amount_column_format = "debit_is_negative"
      /\ SchemaOf(t).debit_column = "Debit" /\ SchemaOf(t).credit_column = "Credit"
      /\ transactions[t].raw_data.Amt = <<"-", "5", "0">>
      /\ transactions[t].raw_data.Debit = <<"1", "0", "0">>
      /\ transactions[t].raw_data.Credit = <<"3", "0">>
      /\ transactions[t].amount = Some(Finite(-5000))

\* C3: a second application of the same mapping, right after the first,
\* leaves the six mapped fields as the first application left them.
C3_Idempotent ==
    [][\A t \in DOMAIN transactions :
         (/\ response.op = "apply" /\ response.txn = t
          /\ response'.op = "apply" /\ response'.txn = t
          /\ accounts' = accounts)
         => MappedFields(transactions'[t]) = MappedFields(transactions[t])]_vars

\* C3 witness: the mapper has run twice on a row that held other values
\* before the first run, and those values are gone.
C3_Witness ==
    \E t \in DOMAIN transactions :
      /\ Mapped(t) /\ applications[t] = 2
      /\ transactions[t].amount # None
      /\ transactions[t].amount # Some(Finite(77700))
      /\ transactions[t].description # Some(<<"o", "l", "d">>)

\* ------------------------------------------------------------------------
\* Reports: the queries (views.py 546-562, 608-622)
\* ------------------------------------------------------------------------
\* Report totals are Decimals, serialized with str(); the model keeps their
\* numeric value in hundredths.
Unclassified == <<"U", "n", "c", "l", "a", "s", "s", "i", "f", "i", "e", "d">>
Uncategorized == <<"U", "n", "c", "a", "t", "e", "g", "o", "r", "i", "z", "e", "d">>

\* Sum of an integer-valued function over a finite subset of its domain.
RECURSIVE SumOver(_, _)
SumOver(f, S) ==
    IF S = {} THEN 0
    ELSE LET x == CHOOSE y \in S : TRUE IN f[x] + SumOver(f, S \ {x})

RECURSIVE SumSeq(_)
SumSeq(q) == IF q = <<>> THEN 0 ELSE Head(q) + SumSeq(Tail(q))

\* Sum('amount') over the transactions of T: NULL amounts are skipped, and
\* the sum of no amount at all is NULL.
SumAmount(T) ==
    LET valued == {t \in T : transactions[t].amount # None} IN
    IF valued = {} THEN None
    ELSE Some(SumOver([t \in valued |-> transactions[t].amount[1].v], valued))

\* The date part of a datetime, and the order of dates.
DateOf(dt) == <<dt.year, dt.month, dt.day>>
DateLeq(a, b) ==
    \/ a[1] < b[1]
    \/ a[1] = b[1] /\ a[2] < b[2]
    \/ a[1] = b[1] /\ a[2] = b[2] /\ a[3] <= b[3]

\* location_classification__type__in=['income', 'expense'] (lines 546-548, 608-610)
TypeFilter(t) ==
    /\ transactions[t].location_classification # None
    /\ location_classifications[transactions[t].location_classification[1]].type
         \in {"income", "expense"}

\* SummaryQuery without the date_to filter of lines 551-552.
SummaryQueryNoDateTo(date_from, date_to, account_id) ==
    {t \in DOMAIN transactions :
       /\ TypeFilter(t)
       /\ date_from # None =>
            /\ transactions[t].transaction_date # None
            /\ DateLeq(date_from[1], DateOf(transactions[t].transaction_date[1]))
       /\ account_id # None => transactions[t].account = account_id[1]}

\* The queryset of the summary report (lines 546-554).
SummaryQuery(date_from, date_to, account_id) ==
    {t \in DOMAIN transactions :
       /\ TypeFilter(t)
       /\ date_from # None =>
            /\ transactions[t].transaction_date # None
            /\ DateLeq(date_from[1], DateOf(transactions[t].transaction_date[1]))
       /\ date_to # None =>
            /\ transactions[t].transaction_date # None
            /\ DateLeq(DateOf(transactions[t].transaction_date[1]), date_to[1])
       /\ account_id # None => transactions[t].account = account_id[1]}

\* The queryset of the monthly report (lines 608-611).
MonthlyQuery(year) ==
    {t \in DOMAIN transactions :
       /\ TypeFilter(t)
       /\ transactions[t].transaction_date # None
       /\ transactions[t].transaction_date[1].year = year}

\* The columns .values() reads through the two foreign keys (lines 556-561).
ClsName(c) == IF c = None THEN None ELSE Some(location_classifications[c[1]].name)
ClsType(c) == IF c = None THEN None ELSE Some(location_classifications[c[1]].type)
SubName(b) == IF b = None THEN None ELSE Some(location_subclassifications[b[1]].name)

\* .values(...).annotate(total=Sum('amount')): one row per distinct
\* (classification, subclassification) of the queryset (lines 556-562).
SummaryRows(qs) ==
    {[cls_id |-> transactions[t].location_classification,
      cls_name |-> ClsName(transactions[t].location_classification),
      cls_type |-> ClsType(transactions[t].location_classification),
      sub_id |-> transactions[t].location_subclassification,
      sub_name |-> SubName(transactions[t].location_subclassification),
      month |-> 0,
      total |-> SumAmount({u \in qs :
                   /\ transactions[u].location_classification
                        = transactions[t].location_classification
                   /\ transactions[u].location_subclassification
                        = transactions[t].location_subclassification})] : t \in qs}

\* The same with TruncMonth('transaction_date') in the group key; month is
\* row['month'].month (lines 613-622, 633).
MonthOf(t) == transactions[t].transaction_date[1].month
MonthlyRows(qs) ==
    {[cls_id |-> transactions[t].location_classification,
      cls_name |-> ClsName(transactions[t].location_classification),
      cls_type |-> ClsType(transactions[t].location_classification),
      sub_id |-> transactions[t].location_subclassification,
      sub_name |-> SubName(transactions[t].location_subclassification),
      month |-> MonthOf(t),
      total |-> SumAmount({u \in qs :
                   /\ MonthOf(u) = MonthOf(t)
                   /\ transactions[u].location_classification
                        = transactions[t].location_classification
                   /\ transactions[u].location_subclassification
                        = transactions[t].location_subclassification})] : t \in qs}

\* ------------------------------------------------------------------------
\* Reports: the hierarchy (views.py 428-506, 624-715)
\* ------------------------------------------------------------------------
\* Lines 451-454 and 630-634: the defaults of a row's keys and total.
RowType(row) == IF row.cls_type = None THEN "expense" ELSE row.cls_type[1]
CatKey(row) == <<row.cls_id, IF row.cls_name = None THEN Unclassified ELSE row.cls_name[1]>>
SubKey(row) == <<row.sub_id, IF row.sub_name = None THEN Uncategorized ELSE row.sub_name[1]>>
RowTotal(row) == IF row.total = None THEN 0 ELSE row.total[1]

\* sort_key that puts the null id first.
sort_key_null_first(key) == <<key[1] # None, key[1]>>

\* key=lambda x: (x[0][0] is None, x[0][0]) (lines 476, 479, 671, 673)
sort_key(key) == <<key[1] = None, key[1]>>

\* Python's order of two such tuples: False before True, then the ids.
KeyBefore(a, b) ==
    LET ka == sort_key(a)
        kb == sort_key(b)
    IN \/ ~ka[1] /\ kb[1]
       \/ ka[1] = kb[1] /\ ka[2] # None /\ kb[2] # None /\ ka[2][1] < kb[2][1]

\* sorted(...) of a set of keys with distinct sort keys.
RECURSIVE Sorted(_)
Sorted(S) ==
    IF S = {} THEN <<>>
    ELSE LET first == CHOOSE x \in S : \A y \in S \ {x} : ~KeyBefore(y, x)
         IN <<first>> \o Sorted(S \ {first})

CatKeys(rows, cls_type) == {CatKey(r) : r \in {x \in rows : RowType(x) = cls_type}}
SubKeys(rows, cls_type, cat_key) ==
    {SubKey(r) : r \in {x \in rows : RowType(x) = cls_type /\ CatKey(x) = cat_key}}
RowsOf(rows, cls_type, cat_key, sub_key) ==
    {x \in rows : RowType(x) = cls_type /\ CatKey(x) = cat_key /\ SubKey(x) = sub_key}

\* tree[cls_type][cat_key][sub_key] (line 461)
TreeTotal(rows, cls_type, cat_key, sub_key) ==
    LET R == RowsOf(rows, cls_type, cat_key, sub_key) IN
    SumOver([r \in R |-> RowTotal(r)], R)

\* SummaryCategory whose total is the last subcategory's total ("=" written
\* for "+=" at line 485).
SummaryCategoryLastOnly(rows, cls_type, cat_key) ==
    LET subs == Sorted(SubKeys(rows, cls_type, cat_key))
        subcategories == [j \in 1..Len(subs) |->
                            [id |-> subs[j][1], name |-> subs[j][2],
                             total |-> TreeTotal(rows, cls_type, cat_key, subs[j])]]
    IN [id |-> cat_key[1], name |-> cat_key[2], subcategories |-> subcategories,
        total |-> subcategories[Len(subs)].total]

\* One category of a section (lines 476-491).
SummaryCategory(rows, cls_type, cat_key) ==
    LET subs == Sorted(SubKeys(rows, cls_type, cat_key))
        subcategories == [j \in 1..Len(subs) |->
                            [id |-> subs[j][1], name |-> subs[j][2],
                             total |-> TreeTotal(rows, cls_type, cat_key, subs[j])]]
    IN [id |-> cat_key[1], name |-> cat_key[2], subcategories |-> subcategories,
        total |-> SumSeq([j \in 1..Len(subs) |-> subcategories[j].total])]

\* One section (lines 472-499).
SummarySection(rows, cls_type, label) ==
    LET cats == Sorted(CatKeys(rows, cls_type))
        categories == [i \in 1..Len(cats) |-> SummaryCategory(rows, cls_type, cats[i])]
    IN [type |-> cls_type, label |-> label, categories |-> categories,
        total |-> SumSeq([i \in 1..Len(cats) |-> categories[i].total])]

\* _build_summary_sections (lines 428-506)
_build_summary_sections(rows) ==
    LET sections == <<SummarySection(rows, "income", "Revenues"),
                      SummarySection(rows, "expense", "Expenses")>>
    IN [sections |-> sections,
        total_revenues |-> sections[1].total,
        total_expenses |-> sections[2].total]

\* SummaryResponse with net income computed as revenues minus expenses.
SummaryResponseSubtracting(date_from, date_to, account_id) ==
    LET built == _build_summary_sections(SummaryRows(SummaryQuery(date_from, date_to, account_id)))
    IN [op |-> "summary", date_from |-> date_from, date_to |-> date_to,
        account |-> account_id,
        sections |-> built.sections,
        total_revenues |-> built.total_revenues,
        total_expenses |-> built.total_expenses,
        net_income |-> built.total_revenues - built.total_expenses]

\* The body of the summary response (lines 564-573).
SummaryResponse(date_from, date_to, account_id) ==
    LET built == _build_summary_sections(SummaryRows(SummaryQuery(date_from, date_to, account_id)))
    IN [op |-> "summary", date_from |-> date_from, date_to |-> date_to,
        account |-> account_id,
        sections |-> built.sections,
        total_revenues |-> built.total_revenues,
        total_expenses |-> built.total_expenses,
        net_income |-> built.total_revenues + built.total_expenses]

\* ---- monthly (lines 624-715) ----
Months == 1..12
zero_months == [m \in Months |-> 0]
months_to_response(month_dict) ==
    [m \in Months |-> IF m \in DOMAIN month_dict THEN month_dict[m] ELSE 0]

\* ytd that leaves December out (a range(1, 12)).
ytd_without_december(month_dict) == SumOver(month_dict, DOMAIN month_dict \ {12})

ytd(month_dict) == SumOver(month_dict, DOMAIN month_dict)

\* pivot[(cls_type, cat_key, sub_key)]: the months that have a row, each with
\* the sum of its rows' totals (lines 625-637).
Pivot(rows, cls_type, cat_key, sub_key) ==
    LET R == RowsOf(rows, cls_type, cat_key, sub_key) IN
    [m \in {r.month : r \in R} |->
       LET Rm == {r \in R : r.month = m} IN SumOver([r \in Rm |-> RowTotal(r)], Rm)]

\* "for m, total in month_totals.items(): d[m] += total"
AddMonths(d, month_totals) ==
    [m \in DOMAIN d |-> d[m] + (IF m \in DOMAIN month_totals THEN month_totals[m] ELSE 0)]

\* cats_map[cat_key]['subs'][sub_key] (lines 666-667)
SubMonths(rows, cls_type, cat_key, sub_key) ==
    AddMonths(zero_months, Pivot(rows, cls_type, cat_key, sub_key))

\* cats_map[cat_key]['months'], accumulated over the pivot entries of the
\* category (lines 661-665).
RECURSIVE CatMonthsFrom(_, _, _, _, _)
CatMonthsFrom(rows, cls_type, cat_key, subs, acc) ==
    IF subs = {} THEN acc
    ELSE LET b == CHOOSE x \in subs : TRUE IN
         CatMonthsFrom(rows, cls_type, cat_key, subs \ {b},
                       AddMonths(acc, Pivot(rows, cls_type, cat_key, b)))
CatMonths(rows, cls_type, cat_key) ==
    CatMonthsFrom(rows, cls_type, cat_key, SubKeys(rows, cls_type, cat_key), zero_months)

\* section_months, accumulated over the sorted categories (lines 669-689).
RECURSIVE SectionMonthsFrom(_, _, _, _)
SectionMonthsFrom(rows, cls_type, cats, acc) ==
    IF cats = <<>> THEN acc
    ELSE SectionMonthsFrom(rows, cls_type, Tail(cats),
                           AddMonths(acc, CatMonths(rows, cls_type, Head(cats))))
SectionMonths(rows, cls_type) ==
    SectionMonthsFrom(rows, cls_type, Sorted(CatKeys(rows, cls_type)), zero_months)

MonthlyCategory(rows, cls_type, cat_key) ==
    LET subs == Sorted(SubKeys(rows, cls_type, cat_key))
        cat_months == CatMonths(rows, cls_type, cat_key)
    IN [id |-> cat_key[1], name |-> cat_key[2],
        subcategories |-> [j \in 1..Len(subs) |->
            LET sub_months == SubMonths(rows, cls_type, cat_key, subs[j]) IN
            [id |-> subs[j][1], name |-> subs[j][2],
             months |-> months_to_response(sub_months), ytd |-> ytd(sub_months)]],
        months |-> months_to_response(cat_months), ytd |-> ytd(cat_months)]

MonthlySection(rows, cls_type, label) ==
    LET cats == Sorted(CatKeys(rows, cls_type))
        section_months == SectionMonths(rows, cls_type)
    IN [type |-> cls_type, label |-> label,
        categories |-> [i \in 1..Len(cats) |-> MonthlyCategory(rows, cls_type, cats[i])],
        months |-> months_to_response(section_months), ytd |-> ytd(section_months)]

\* The body of the monthly response (lines 651-715).
MonthlyResponse(year) ==
    LET rows == MonthlyRows(MonthlyQuery(year))
        total_rev_months == AddMonths(zero_months, SectionMonths(rows, "income"))
        total_exp_months == AddMonths(zero_months, SectionMonths(rows, "expense"))
        net_months == [m \in Months |-> total_rev_months[m] + total_exp_months[m]]
    IN [op |-> "monthly", year |-> year,
        sections |-> <<MonthlySection(rows, "income", "Revenues"),
                       MonthlySection(rows, "expense", "Expenses")>>,
        total_revenues |-> [months |-> months_to_response(total_rev_months),
                            ytd |-> ytd(total_rev_months)],
        total_expenses |-> [months |-> months_to_response(total_exp_months),
                            ytd |-> ytd(total_exp_months)],
        net_income |-> [months |-> months_to_response(net_months), ytd |-> ytd(net_months)]]

\* ------------------------------------------------------------------------
\* SpecReport: transactions are posted and the two reports are requested
\* ------------------------------------------------------------------------
DateTime(y, m, d) == [year |-> y, month |-> m, day |-> d, hour |-> 0, minute |-> 0, second |-> 0]

\* The taxonomy the reports run against: two expense categories, an income
\* and a transfer category, and two subcategories.
ReportClassifications ==
    [c \in 1..4 |->
       CASE c = 1 -> [name |-> <<"P", "a", "y">>, type |-> "income"]
         [] c = 2 -> [name |-> <<"F", "o", "o", "d">>, type |-> "expense"]
         [] c = 3 -> [name |-> <<"N", "/", "A">>, type |-> "transfer"]
         [] c = 4 -> [name |-> <<"R", "e", "n", "t">>, type |-> "expense"]]
ReportSubClassifications ==
    [b \in 1..2 |->
       CASE b = 1 -> [location_classification |-> 2, name |-> <<"O", "u", "t">>]
         [] b = 2 -> [location_classification |-> 2, name |-> <<"H", "o", "m", "e">>]]

\* The request bodies of POST /transactions/ the model draws from:
\* account, transaction_date, amount (hundredths), classification and
\* subclassification.
PostData(account, date, amount, cls, sub) ==
    [NewTransaction(account, None, <<>>) EXCEPT
       !.transaction_date = date,
       !.amount = IF amount = None THEN None ELSE Some(Finite(amount[1])),
       !.location_classification = cls,
       !.location_subclassification = sub]
SamplePosts ==
    {PostData(1, Some(DateTime(2025, 1, 15)), Some(700), Some(1), None),
     PostData(1, Some(DateTime(2025, 1, 20)), Some(-500), Some(2), Some(1)),
     PostData(2, Some(DateTime(2025, 3, 5)), Some(-300), Some(2), Some(2)),
     PostData(1, Some(DateTime(2025, 3, 9)), Some(-200), Some(2), None),
     PostData(2, Some(DateTime(2024, 12, 31)), Some(-100), Some(4), None),
     PostData(1, Some(DateTime(2025, 1, 2)), Some(-900), Some(3), None),
     PostData(1, Some(DateTime(2025, 1, 3)), Some(-400), None, None),
     PostData(2, None, None, Some(4), Some(1))}

\* The query strings of the summary report the model draws from:
\* <<date_from, date_to, account>>.
SummaryRequests ==
    {<<None, None, None>>,
     <<Some(<<2025, 1, 1>>), Some(<<2025, 1, 31>>), None>>,
     <<None, Some(<<2025, 1, 31>>), Some(1)>>,
     <<Some(<<2025, 1, 16>>), None, Some(2)>>}
ReportYears == {2024, 2025}

InitReport ==
    /\ accounts = [a \in 1..2 |-> [type |-> "checking", file_upload_schema |-> None]]
    /\ file_uploads = NoRows
    /\ transactions = NoRows
    /\ location_classifications = ReportClassifications
    /\ location_subclassifications = ReportSubClassifications
    /\ response = NoResponse
    /\ applications = NoRows
    /\ statements = NoRows
    /\ sequences = Sequences
    /\ inflight = NoRows

\* The next id of a table no row of which was ever deleted.
NextId(table) == Cardinality(DOMAIN table) + 1

\* TransactionListView.post (views.py 315-320): the serializer stores the
\* posted fields as a new row.
TransactionPost(data) ==
    /\ sequences.transactions < MaxTransactions
    /\ LET id == sequences.transactions + 1 IN
       /\ transactions' = [t \in DOMAIN transactions \cup {id} |->
                             IF t = id THEN data ELSE transactions[t]]
       /\ response' = [op |-> "post", txn |-> id]
       /\ applications' = [t \in DOMAIN transactions \cup {id} |->
                             IF t = id THEN 0 ELSE applications[t]]
       /\ sequences' = [sequences EXCEPT !.transactions = id]
    /\ UNCHANGED <<accounts, file_uploads, location_classifications,
                   location_subclassifications, statements, inflight>>

\* CashFlowStatementViewSet.summary (views.py 540-573)
Summary(date_from, date_to, account_id) ==
    /\ response' = SummaryResponse(date_from, date_to, account_id)
    /\ UNCHANGED <<accounts, file_uploads, transactions, location_classifications,
                   location_subclassifications, applications,
                   statements, sequences, inflight>>

\* CashFlowStatementViewSet.monthly (views.py 594-715)
Monthly(year) ==
    /\ response' = MonthlyResponse(year)
    /\ UNCHANGED <<accounts, file_uploads, transactions, location_classifications,
                   location_subclassifications, applications,
                   statements, sequences, inflight>>

NextReport ==
    \/ \E data \in SamplePosts : TransactionPost(data)
    \/ \E q \in SummaryRequests : Summary(q[1], q[2], q[3])
    \/ \E year \in ReportYears : Monthly(year)

SpecReport == InitReport /\ [][NextReport]_vars

\* ------------------------------------------------------------------------
\* Properties of the reports (SpecReport)
\* ------------------------------------------------------------------------
IsReport == response.op \in {"summary", "monthly"}
IdsOf(entries) == [i \in 1..Len(entries) |-> entries[i].id]
NullFirstAscending(ids) ==
    \A i, j \in 1..Len(ids) :
      i < j => ids[j] # None /\ (ids[i] = None \/ ids[i][1] < ids[j][1])
NullLastAscending(ids) ==
    \A i, j \in 1..Len(ids) :
      i < j => ids[i] # None /\ (ids[j] = None \/ ids[i][1] < ids[j][1])
Range(q) == {q[i] : i \in 1..Len(q)}
AllCategories == UNION {Range(sec.categories) : sec \in Range(response.sections)}

\* C4 as claimed: in every report the categories of a section and the
\* subcategories of a category are listed null id first, then by ascending
\* id.
C4_NullFirst ==
    IsReport =>
      /\ \A sec \in Range(response.sections) : NullFirstAscending(IdsOf(sec.categories))
      /\ \A cat \in AllCategories : NullFirstAscending(IdsOf(cat.subcategories))

\* C4 amended: in every report, summary and monthly, the categories of a
\* section and the subcategories of a category are listed by ascending id
\* with the null-id entry last; ids [None, 3, 1] come out as [1, 3, None].
C4_NullLast ==
    /\ IsReport =>
         /\ \A sec \in Range(response.sections) : NullLastAscending(IdsOf(sec.categories))
         /\ \A cat \in AllCategories : NullLastAscending(IdsOf(cat.subcategories))
    /\ Sorted({<<None, Uncategorized>>, <<Some(3), <<"O", "u", "t">>>>, <<Some(1), <<"H", "o", "m", "e">>>>})
         = << <<Some(1), <<"H", "o", "m", "e">>>>, <<Some(3), <<"O", "u", "t">>>>, <<None, Uncategorized>> >>

\* C4 witness: a report whose expense section lists the categories 2 and 4,
\* the first with the subcategories 1 and "Uncategorized", in that order.
C4_Witness ==
    /\ IsReport
    /\ \E sec \in Range(response.sections) :
         /\ IdsOf(sec.categories) = <<Some(2), Some(4)>>
         /\ IdsOf(sec.categories[1].subcategories) = <<Some(1), None>>
         /\ sec.categories[1].subcategories[2].name = Uncategorized

\* C5: in the summary report a category's total is the sum of its
\* subcategories' totals and a section's total the sum of its categories'
\* totals; in the monthly report both hold in each of the 12 month slots.
C5_HierarchyTotals ==
    /\ response.op = "summary" =>
         /\ \A sec \in Range(response.sections) :
              sec.total = SumSeq([i \in 1..Len(sec.categories) |-> sec.categories[i].total])
         /\ \A cat \in AllCategories :
              cat.total = SumSeq([j \in 1..Len(cat.subcategories) |-> cat.subcategories[j].total])
    /\ response.op = "monthly" =>
         \A m \in 1..12 :
           /\ \A sec \in Range(response.sections) :
                sec.months[m]
                  = SumSeq([i \in 1..Len(sec.categories) |-> sec.categories[i].months[m]])
           /\ \A cat \in AllCategories :
                cat.months[m]
                  = SumSeq([j \in 1..Len(cat.subcategories) |-> cat.subcategories[j].months[m]])

\* C5 witness: a summary whose expense section has two categories, one of
\* them with two subcategories of non-zero total.
C5_Witness ==
    /\ response.op = "summary"
    /\ Len(response.sections[2].categories) = 2
    /\ \E cat \in Range(response.sections[2].categories) :
         /\ Len(cat.subcategories) = 2
         /\ cat.subcategories[1].total # 0 /\ cat.subcategories[2].total # 0
         /\ cat.total = cat.subcategories[1].total + cat.subcategories[2].total

\* The entries of a monthly report that carry months and ytd.
MonthlyEntries ==
    Range(response.sections) \cup AllCategories
      \cup UNION {Range(cat.subcategories) : cat \in AllCategories}
\* The transactions the monthly report of the given year reads in month m.
ActiveIn(year, m) ==
    {t \in DOMAIN transactions :
       /\ transactions[t].transaction_date # None
       /\ transactions[t].transaction_date[1].year = year
       /\ transactions[t].transaction_date[1].month = m
       /\ transactions[t].location_classification # None}
TypeOf(t) == location_classifications[transactions[t].location_classification[1]].type

\* C6: every subcategory, category, section and grand total of the monthly
\* report carries exactly the slots 1..12, a slot without activity is zero
\* and ytd is the sum of the 12 slots.
C6_MonthSlots ==
    response.op = "monthly" =>
      /\ \A e \in MonthlyEntries :
           /\ DOMAIN e.months = 1..12
           /\ e.ytd = SumOver(e.months, 1..12)
      /\ \A key \in {"total_revenues", "total_expenses", "net_income"} :
           /\ DOMAIN response[key].months = 1..12
           /\ response[key].ytd = SumOver(response[key].months, 1..12)
      /\ \A m \in 1..12 :
           /\ \A sec \in Range(response.sections) :
                {t \in ActiveIn(response.year, m) : TypeOf(t) = sec.type} = {}
                  => /\ sec.months[m] = 0
                     /\ \A cat \in Range(sec.categories) : cat.months[m] = 0
           /\ \A cat \in AllCategories :
                /\ {t \in ActiveIn(response.year, m) :
                      transactions[t].location_classification = cat.id} = {}
                     => cat.months[m] = 0
                /\ \A sub \in Range(cat.subcategories) :
                     {t \in ActiveIn(response.year, m) :
                        /\ transactions[t].location_classification = cat.id
                        /\ transactions[t].location_subclassification = sub.id} = {}
                       => sub.months[m] = 0
           /\ ActiveIn(response.year, m) = {}
                => /\ response.total_revenues.months[m] = 0
                   /\ response.total_expenses.months[m] = 0
                   /\ response.net_income.months[m] = 0

\* C6 witness: a monthly report with activity in December and in no other
\* month.
C6_Witness ==
    /\ response.op = "monthly"
    /\ response.total_expenses.months[12] # 0
    /\ response.total_expenses.months[1] = 0
    /\ response.total_expenses.ytd = response.total_expenses.months[12]
    /\ \E cat \in AllCategories : cat.months[12] # 0 /\ cat.ytd = cat.months[12]

\* C7: total_revenues is the income section's total, total_expenses the
\* expense section's total and net_income their sum; in the monthly report
\* in every slot and for ytd.
C7_NetIncome ==
    /\ response.op = "summary" =>
         /\ response.sections[1].type = "income"
         /\ response.sections[2].type = "expense"
         /\ response.total_revenues = response.sections[1].total
         /\ response.total_expenses = response.sections[2].total
         /\ response.net_income = response.total_revenues + response.total_expenses
    /\ response.op = "monthly" =>
         /\ response.sections[1].type = "income"
         /\ response.sections[2].type = "expense"
         /\ response.total_revenues.months = response.sections[1].months
         /\ response.total_expenses.months = response.sections[2].months
         /\ response.total_revenues.ytd = response.sections[1].ytd
         /\ response.total_expenses.ytd = response.sections[2].ytd
         /\ \A m \in 1..12 :
              response.net_income.months[m]
                = response.total_revenues.months[m] + response.total_expenses.months[m]
         /\ response.net_income.ytd = response.total_revenues.ytd + response.total_expenses.ytd

\* C7 witness: a summary with revenues 7.00, expenses -5.00 and net income
\* 2.00.
C7_Witness ==
    /\ response.op = "summary"
    /\ response.total_revenues = 700
    /\ response.total_expenses = -500
    /\ response.net_income = 200

\* The transaction passes the filters of the request that produced the
\* response: date range and account for summary, calendar year for monthly.
PassesRequest(t) ==
    LET txn == transactions[t] IN
    IF response.op = "summary"
    THEN /\ response.date_from # None =>
              /\ txn.transaction_date # None
              /\ DateLeq(response.date_from[1], DateOf(txn.transaction_date[1]))
         /\ response.date_to # None =>
              /\ txn.transaction_date # None
              /\ DateLeq(DateOf(txn.transaction_date[1]), response.date_to[1])
         /\ response.account # None => txn.account = response.account[1]
    ELSE /\ txn.transaction_date # None
         /\ txn.transaction_date[1].year = response.year
\* The transactions that should contribute to the section of a type.
Contributing(type) ==
    {t \in DOMAIN transactions :
       /\ transactions[t].location_classification # None
       /\ TypeOf(t) = type
       /\ PassesRequest(t)}
AmountOrZero(t) == IF transactions[t].amount = None THEN 0 ELSE transactions[t].amount[1].v
\* The sum of the amounts of a set of transactions, each counted once.
AmountOf(T) == SumOver([t \in T |-> AmountOrZero(t)], T)
InMonth(T, m) == {t \in T : transactions[t].transaction_date[1].month = m}

\* C8: a report is made of exactly the transactions whose classification is
\* of type income or expense and that pass the request's filters: every
\* section, category and subcategory total is the sum of the amounts of
\* those transactions that belong to it, a category or subcategory is listed
\* only if such a transaction exists, and nothing else (a transfer, an
\* unclassified or a filtered-out transaction) is counted anywhere.
C8_Contributions ==
    IsReport =>
      \A sec \in Range(response.sections) :
        LET S == Contributing(sec.type) IN
        /\ sec.type \in {"income", "expense"}
        /\ {cat.id : cat \in Range(sec.categories)}
             = {transactions[t].location_classification : t \in S}
        /\ response.op = "summary" => sec.total = AmountOf(S)
        /\ response.op = "monthly" => \A m \in 1..12 : sec.months[m] = AmountOf(InMonth(S, m))
        /\ \A cat \in Range(sec.categories) :
             LET Sc == {t \in S : transactions[t].location_classification = cat.id} IN
             /\ {sub.id : sub \in Range(cat.subcategories)}
                  = {transactions[t].location_subclassification : t \in Sc}
             /\ response.op = "summary" => cat.total = AmountOf(Sc)
             /\ response.op = "monthly" =>
                  \A m \in 1..12 : cat.months[m] = AmountOf(InMonth(Sc, m))
             /\ \A sub \in Range(cat.subcategories) :
                  LET Ss == {t \in Sc : transactions[t].location_subclassification = sub.id} IN
                  /\ response.op = "summary" => sub.total = AmountOf(Ss)
                  /\ response.op = "monthly" =>
                       \A m \in 1..12 : sub.months[m] = AmountOf(InMonth(Ss, m))

\* C8 witness: a summary of January 2025 over a store that holds a January
\* expense, a January transfer and a March expense; only the first counts.
C8_Witness ==
    /\ response.op = "summary"
    /\ response.date_from = Some(<<2025, 1, 1>>) /\ response.date_to = Some(<<2025, 1, 31>>)
    /\ \E t \in DOMAIN transactions :
         /\ transactions[t].location_classification # None /\ TypeOf(t) = "transfer"
         /\ PassesRequest(t)
    /\ \E t \in DOMAIN transactions :
         /\ transactions[t].location_classification # None /\ TypeOf(t) = "expense"
         /\ ~PassesRequest(t)
    /\ response.total_expenses = -500
    /\ response.total_revenues = 0

\* C9 as claimed: a transaction without a location classification that
\* passes the request's filters is reported in the expense section under the
\* category "Unclassified" with null id, and a reported transaction without a
\* location subclassification under the subcategory "Uncategorized" with null
\* id of its category.
C9_DefaultGrouping ==
    IsReport =>
      \A t \in DOMAIN transactions :
        PassesRequest(t) =>
          /\ transactions[t].location_classification = None =>
               \E cat \in Range(response.sections[2].categories) :
                 cat.id = None /\ cat.name = Unclassified
          /\ (/\ transactions[t].location_classification # None
              /\ TypeOf(t) \in {"income", "expense"}
              /\ transactions[t].location_subclassification = None) =>
               \E cat \in AllCategories :
                 /\ cat.id = transactions[t].location_classification
                 /\ \E sub \in Range(cat.subcategories) :
                      sub.id = None /\ sub.name = Uncategorized

\* ------------------------------------------------------------------------
\* parse_csv (csv_utils.py 7-19)
\* ------------------------------------------------------------------------
\* A file is its header line and its further lines, each already split into
\* cells by csv.reader. DictReader skips the lines that are empty and turns
\* every other line into a dict keyed by the header.
Index(headers, col) == CHOOSE i \in 1..Len(headers) : headers[i] = col
DictRow(headers, line) == [col \in Range(headers) |-> line[Index(headers, col)]]
RECURSIVE DictRows(_, _)
DictRows(headers, lines) ==
    IF lines = <<>> THEN <<>>
    ELSE IF Head(lines) = <<>> THEN DictRows(headers, Tail(lines))
    ELSE <<DictRow(headers, Head(lines))>> \o DictRows(headers, Tail(lines))
parse_csv(file) == [headers |-> file.headers, rows |-> DictRows(file.headers, file.lines)]

\* ------------------------------------------------------------------------
\* Spec: accounts get a mapping, files are uploaded and re-processed
\* ------------------------------------------------------------------------
\* "for txn in file_upload.transactions.all(): apply_schema_to_transaction"
\* over the transactions ids (a sequence, in id order), from the state st =
\* [transactions, applications, errors, raised]. With catch (views.py
\* 141-145) a raise is recorded in errors and the loop goes on; without
\* (views.py 103-104) the raise leaves the loop and the request.
\* AfterCall that lets a raise leave the loop also when the caller catches.
AfterCallAborting(st, t, out, catch) ==
    IF out.raised
    THEN [st EXCEPT !.raised = TRUE, !.applications[t] = @ + 1]
    ELSE [st EXCEPT !.transactions[t] = out.row, !.applications[t] = @ + 1]

\* The loop state after one call of the mapper on transaction t that came
\* back as out: the row is stored, or the raise is recorded in errors
\* (catch) or leaves the request (no catch).
AfterCall(st, t, out, catch) ==
    IF out.raised
    THEN (IF catch
          THEN [st EXCEPT !.errors = Append(@, "invalid decimal"),
                          !.applications[t] = @ + 1]
          ELSE [st EXCEPT !.raised = TRUE, !.applications[t] = @ + 1])
    ELSE [st EXCEPT !.transactions[t] = out.row, !.applications[t] = @ + 1]

RECURSIVE MapperLoop(_, _, _, _)
MapperLoop(ids, schema, st, catch) ==
    IF ids = <<>> \/ st.raised THEN st
    ELSE MapperLoop(Tail(ids), schema,
                    AfterCall(st, Head(ids),
                              apply_schema_to_transaction(st.transactions[Head(ids)], schema),
                              catch),
                    catch)

\* The ids of a set of rows in ascending order.
RECURSIVE Ascending(_)
Ascending(S) ==
    IF S = {} THEN <<>>
    ELSE LET lo == CHOOSE x \in S : \A y \in S : x <= y IN <<lo>> \o Ascending(S \ {lo})

\* file_upload.transactions.all()
TransactionsOf(table, u) == {t \in DOMAIN table : table[t].file_upload = Some(u)}

\* The files and mappings the model draws from. The header is Date, Amt; a
\* line is well-formed, holds an amount Decimal accepts but the amount
\* column cannot store, or is empty. A mapping is any JSON value (models.py
\* 22, AccountSerializer): two name an amount column with a sign mode, one
\* names an amount column with a sign mode and a debit/credit pair as well.
UploadHeaders == <<"Date", "Amt">>
SampleLines ==
    {<<<<"2", "0", "2", "5", "-", "0", "1", "-", "1", "5">>, <<"-", "4", "2", ".", "5", "0">>>>,
     <<<<"0", "1", "/", "2", "0", "/", "2", "0", "2", "5">>, <<"N", "a", "N">>>>,
     <<>>}
UploadFiles ==
    {[headers |-> UploadHeaders, lines |-> ls] :
       ls \in UNION {[1..n -> SampleLines] : n \in 0..MaxLines}}
SystemSchemas ==
    {MakeSchema([transaction_date |-> "Date", posted_date |-> NoCol, description |-> NoCol,
                 description_2 |-> NoCol, category |-> NoCol],
                [amount |-> "Amt", amount_column_format |-> fmt,
                 debit_column |-> NoCol, credit_column |-> NoCol]) :
       fmt \in {"debit_is_negative", "debit_is_positive"}}
    \cup
    {MakeSchema([transaction_date |-> "Date", posted_date |-> NoCol, description |-> NoCol,
                 description_2 |-> NoCol, category |-> NoCol],
                [amount |-> "Amt", amount_column_format |-> "debit_is_negative",
                 debit_column |-> "Amt", credit_column |-> "Amt"])}

\* One account exists and nothing has been uploaded.
Init ==
    /\ accounts = [a \in {1} |-> [type |-> "checking", file_upload_schema |-> None]]
    /\ file_uploads = NoRows
    /\ transactions = NoRows
    /\ location_classifications = NoRows
    /\ location_subclassifications = NoRows
    /\ response = NoResponse
    /\ applications = NoRows
    /\ statements = NoRows
    /\ sequences = Sequences
    /\ inflight = NoRows

\* AccountUpdate that also takes the account's pending uploads out of the
\* pending status when a mapping is stored.
AccountUpdateReprocessing(a, schema) ==
    /\ a \in DOMAIN accounts
    /\ accounts[a].file_upload_schema # schema
    /\ accounts' = [accounts EXCEPT ![a].file_upload_schema = schema]
    /\ file_uploads' =
         [u \in DOMAIN file_uploads |->
            IF schema # None /\ file_uploads[u].account = a
                             /\ file_uploads[u].status = "pending"
            THEN [file_uploads[u] EXCEPT !.status = "completed"]
            ELSE file_uploads[u]]
    /\ response' = [op |-> "account_update", account |-> a]
    /\ UNCHANGED <<transactions, location_classifications,
                   location_subclassifications, applications,
                   statements, sequences, inflight>>

\* AccountViewSet (views.py 47-49): PUT/PATCH of an account stores the
\* posted file_upload_schema; the JSON field takes any value (models.py 22).
AccountUpdate(a, schema) ==
    /\ a \in DOMAIN accounts
    /\ accounts[a].file_upload_schema # schema
    /\ accounts' = [accounts EXCEPT ![a].file_upload_schema = schema]
    /\ response' = [op |-> "account_update", account |-> a]
    /\ UNCHANGED <<file_uploads, transactions, location_classifications,
                   location_subclassifications, applications,
                   statements, sequences, inflight>>

\* FileUploadViewSet.create (views.py 61-113). file is None when the request
\* carries no file. A raise of the mapper is not caught: the request ends
\* with a server error and what was written before stays written.
FileUploadCreate(account_id, file) ==
    /\ account_id \in DOMAIN accounts
    /\ sequences.file_uploads < MaxUploads
    /\ LET u == sequences.file_uploads + 1
           account == accounts[account_id]
       IN IF file # None
          THEN LET rows == parse_csv(file[1]).rows
                   has_schema == account.file_upload_schema # None
                   first == sequences.transactions
                   ids == (first + 1)..(first + Len(rows))
                   created == [t \in DOMAIN transactions \cup ids |->
                                 IF t \in ids
                                 THEN NewTransaction(account_id, Some(u), rows[t - first])
                                 ELSE transactions[t]]
                   st0 == [transactions |-> created,
                           applications |-> [t \in DOMAIN created |->
                                               IF t \in ids THEN 0 ELSE applications[t]],
                           errors |-> <<>>, raised |-> FALSE]
               IN \E st \in {IF has_schema
                             THEN MapperLoop(Ascending(TransactionsOf(created, u)),
                                             account.file_upload_schema[1], st0, FALSE)
                             ELSE st0} :
                  /\ file_uploads' =
                       [f \in DOMAIN file_uploads \cup {u} |->
                          IF f = u
                          THEN [account |-> account_id, transaction_count |-> Len(rows),
                                status |-> IF has_schema THEN "completed" ELSE "pending",
                                errors |-> None]
                          ELSE file_uploads[f]]
                  /\ transactions' = st.transactions
                  /\ applications' = st.applications
                  /\ response' = [op |-> "create", code |-> IF st.raised THEN 500 ELSE 201,
                                  file_upload |-> u, has_file |-> TRUE, rows |-> rows,
                                  has_schema |-> has_schema]
                  /\ sequences' = [sequences EXCEPT !.file_uploads = u,
                                                    !.transactions = first + Len(rows)]
          ELSE /\ file_uploads' =
                    [f \in DOMAIN file_uploads \cup {u} |->
                       IF f = u
                       THEN [account |-> account_id, transaction_count |-> 0,
                             status |-> "pending", errors |-> None]
                       ELSE file_uploads[f]]
               /\ response' = [op |-> "create", code |-> 201, file_upload |-> u,
                               has_file |-> FALSE, rows |-> <<>>, has_schema |-> FALSE]
               /\ sequences' = [sequences EXCEPT !.file_uploads = u]
               /\ UNCHANGED <<transactions, applications>>
    /\ UNCHANGED <<accounts, location_classifications, location_subclassifications,
                   statements, inflight>>

\* FileUploadViewSet.process (views.py 122-157)
FileUploadProcess(u) ==
    /\ u \in DOMAIN file_uploads
    /\ \A t \in TransactionsOf(transactions, u) : applications[t] < MaxApplications
    /\ LET schema == accounts[file_uploads[u].account].file_upload_schema IN
       IF schema = None
       THEN /\ response' = [op |-> "process", code |-> 400, file_upload |-> u]
            /\ UNCHANGED <<file_uploads, transactions, applications>>
       ELSE \E st \in {MapperLoop(Ascending(TransactionsOf(transactions, u)), schema[1],
                                   [transactions |-> transactions,
                                    applications |-> applications,
                                    errors |-> <<>>, raised |-> FALSE], TRUE)} :
               /\ file_uploads' =
                    [file_uploads EXCEPT
                       ![u].status = IF st.errors # <<>> THEN "failed" ELSE "completed",
                       ![u].errors = IF st.errors # <<>> THEN Some(st.errors) ELSE None]
               /\ transactions' = st.transactions
               /\ applications' = st.applications
               /\ response' = [op |-> "process", code |-> 200, file_upload |-> u]
    /\ UNCHANGED <<accounts, location_classifications, location_subclassifications,
                   statements, sequences, inflight>>

\* The bodies of the PATCH requests the model draws from: a new raw_data,
\* and a location classification reference.
EditedRow ==
    [Date |-> <<"2", "0", "2", "5", "-", "0", "1", "-", "1", "5">>, Amt |-> <<"9">>]
PatchSamples ==
    {[raw_data |-> EditedRow],
     [location_classification |-> Some(1)]}

\* TransactionSerializer (serializers.py 88-117): every model field of the
\* list is writable, raw_data included; a classification reference must name
\* a stored row.
PatchIsValid(data) ==
    /\ "location_classification" \in DOMAIN data =>
         \/ data.location_classification = None
         \/ data.location_classification[1] \in DOMAIN location_classifications
    /\ "location_subclassification" \in DOMAIN data =>
         \/ data.location_subclassification = None
         \/ data.location_subclassification[1] \in DOMAIN location_subclassifications

\* serializer.update: the fields of the body are set on the instance.
Patched(txn, data) ==
    [f \in DOMAIN txn |-> IF f \in DOMAIN data THEN data[f] ELSE txn[f]]

\* TransactionDetailView.patch (views.py 334-340)
TransactionPatch(t, data) ==
    /\ t \in DOMAIN transactions
    /\ IF PatchIsValid(data)
       THEN /\ transactions[t] # Patched(transactions[t], data)
            /\ Cardinality({x \in DOMAIN transactions :
                               transactions[x].raw_data = EditedRow}) < MaxEdits
            /\ transactions' = [transactions EXCEPT ![t] = Patched(@, data)]
            /\ response' = [op |-> "patch", code |-> 200, txn |-> t]
       ELSE /\ response' = [op |-> "patch", code |-> 400, txn |-> t]
            /\ UNCHANGED transactions
    /\ UNCHANGED <<accounts, file_uploads, location_classifications,
                   location_subclassifications, applications,
                   statements, sequences, inflight>>

Next ==
    \/ \E a \in DOMAIN accounts : \E schema \in {None} \cup {Some(x) : x \in SystemSchemas} :
         AccountUpdate(a, schema)
    \/ \E a \in DOMAIN accounts : \E file \in {None} \cup {Some(x) : x \in UploadFiles} :
         FileUploadCreate(a, file)
    \/ \E u \in DOMAIN file_uploads : FileUploadProcess(u)
    \/ \E t \in DOMAIN transactions : \E data \in PatchSamples : TransactionPatch(t, data)

Spec == Init /\ [][Next]_vars

\* ------------------------------------------------------------------------
\* Properties of ingestion (Spec)
\* ------------------------------------------------------------------------
\* C10: after an upload of a file with n data rows the upload has exactly n
\* transactions, the i-th holding the i-th row as raw_data, and
\* transaction_count = n; if the account had a mapping the mapper has been
\* called on each of the n transactions and the status is completed,
\* otherwise none of them is normalized and the status is pending.
C10_Ingestion ==
    (response.op = "create" /\ response.has_file) =>
      LET u == response.file_upload
          n == Len(response.rows)
          T == TransactionsOf(transactions, u)
      IN /\ Cardinality(T) = n
         /\ file_uploads[u].transaction_count = n
         /\ \A i \in 1..n : transactions[Ascending(T)[i]].raw_data = response.rows[i]
         /\ response.has_schema =>
              /\ \A t \in T : applications[t] >= 1
              /\ file_uploads[u].status = "completed"
         /\ ~response.has_schema =>
              /\ \A t \in T :
                   /\ applications[t] = 0
                   /\ MappedFields(transactions[t]) = <<None, None, None, None, None, None>>
              /\ file_uploads[u].status = "pending"

C12_ReprocessPass ==
    [][\A u \in DOMAIN file_uploads :
         (response'.op = "process" /\ response'.code = 200
            /\ response'.file_upload = u) =>
           LET T == TransactionsOf(transactions, u)
               schema == accounts[file_uploads[u].account].file_upload_schema[1]
               failing == {t \in T :
                             apply_schema_to_transaction(transactions[t], schema).raised}
           IN /\ \A t \in T : applications'[t] = applications[t] + 1
              /\ \A t \in T \ failing :
                   transactions'[t] =
                     apply_schema_to_transaction(transactions[t], schema).row
              /\ file_uploads'[u].status # "processing"
              /\ (file_uploads'[u].status = "failed") <=> (failing # {})
              /\ (file_uploads'[u].status = "completed") <=> (failing = {})
              /\ IF failing = {}
                 THEN file_uploads'[u].errors = None
                 ELSE /\ file_uploads'[u].errors # None
                      /\ Len(file_uploads'[u].errors[1]) = Cardinality(failing)]_vars

\* A pass over two transactions of which the first raised: the second was
\* mapped all the same and the upload is failed with one message.
C12_Witness ==
    /\ response.op = "process"
    /\ response.code = 200
    /\ LET u == response.file_upload
           T == TransactionsOf(transactions, u)
       IN /\ Cardinality(T) = 2
          /\ file_uploads[u].status = "failed"
          /\ Len(file_uploads[u].errors[1]) = 1
          /\ transactions[Ascending(T)[1]].amount = None
          /\ transactions[Ascending(T)[1]].raw_data["Amt"] = <<"N", "a", "N">>
          /\ transactions[Ascending(T)[2]].amount # None

\* ------------------------------------------------------------------------
\* Parse failures in the mapper (SpecMapper)
\* ------------------------------------------------------------------------
\* C13: when the cell of a mapped date or amount field is missing, empty or
\* not a date / not a decimal, the parser returns no value, the field is
\* null after the call whatever it held before, and the call still returns
\* normally with every other field assigned and the row saved.
C13_ParseFailuresNotFatal ==
    \A t \in DOMAIN transactions :
      (response.op = "apply" /\ response.txn = t) =>
        LET s == SchemaOf(t)
            txn == transactions[t]
            raw == txn.raw_data
            single == s.amount_column_format \in {"debit_is_negative", "debit_is_positive"}
            Cell(col) == IF col # NoCol /\ col \in DOMAIN raw THEN Some(raw[col]) ELSE None
            td == get_raw(raw, s.schema, "transaction_date")
            pd == get_raw(raw, s.schema, "posted_date")
            am == get_raw(raw, s.schema, "amount")
            BadDate(c) == \/ c = None
                          \/ Strip(c[1]) = <<>>
                          \/ c[1] = <<"0", "2", "/", "3", "0", "/", "2", "0", "2", "5">>
            BadAmount(c) == \/ c = None
                            \/ Strip(c[1]) = <<>>
                            \/ c[1] = <<"a", "b", "c">>
            bad == \/ BadDate(td)
                   \/ BadDate(pd)
                   \/ single /\ BadAmount(am)
                   \/ ~single /\ BadAmount(Cell(s.debit_column))
                   \/ ~single /\ BadAmount(Cell(s.credit_column))
        IN /\ BadDate(td) => (_parse_date(td) = None /\ txn.transaction_date = None)
           /\ BadDate(pd) => (_parse_date(pd) = None /\ txn.posted_date = None)
           /\ (single /\ BadAmount(am)) => (_parse_amount(am) = None /\ txn.amount = None)
           /\ (~single /\ BadAmount(Cell(s.debit_column))
                       /\ BadAmount(Cell(s.credit_column))) => txn.amount = None
           /\ bad => /\ ~response.raised
                     /\ MappedFields(txn) = MappedFields(AssignMapped(txn, s))

\* ------------------------------------------------------------------------
\* SpecDate: _parse_date applied to one cell
\* ------------------------------------------------------------------------
\* The cells the model draws from: three numbers joined by "/" or "-", with
\* or without a time of day, padded or not; and the cells that hold no date.
DateFirst ==
    {<<"0", "3">>, <<"1", "3">>, <<"0", "2">>, <<"1">>, <<"2", "0", "2", "5">>}
DateSecond ==
    {<<"0", "4">>, <<"3", "0">>, <<"1", "3">>, <<"0", "1">>}
DateThird ==
    {<<"2", "0", "2", "5">>, <<"2", "5">>, <<"1", "5">>, <<"9", "9">>}
DateSeparators == {<<"/">>, <<"-">>}
DateSuffixes == {<<>>, <<"T", "1", "0", ":", "3", "0", ":", "0", "0">>}
DateCells ==
    {a \o sep \o b \o sep \o c \o suffix :
       a \in DateFirst, b \in DateSecond, c \in DateThird,
       sep \in DateSeparators, suffix \in DateSuffixes}
    \cup {<<>>, <<" ", " ">>, <<"a", "b", "c">>,
          <<" ", "0", "3", "/", "0", "4", "/", "2", "0", "2", "5", " ">>,
          <<"0", "3", "/", "0", "4", "-", "2", "0", "2", "5">>}

\* A cell (or no cell) is about to be parsed.
InitDate ==
    /\ \E v \in {None} \cup {Some(s) : s \in DateCells} :
         response = [op |-> "input", value |-> v]
    /\ accounts = NoRows
    /\ file_uploads = NoRows
    /\ transactions = NoRows
    /\ location_classifications = NoRows
    /\ location_subclassifications = NoRows
    /\ applications = NoRows
    /\ statements = NoRows
    /\ sequences = Sequences
    /\ inflight = NoRows

\* One call _parse_date(value).
ParseDate ==
    /\ response.op = "input"
    /\ response' = [op |-> "_parse_date", value |-> response.value,
                    result |-> _parse_date(response.value)]
    /\ UNCHANGED <<accounts, file_uploads, transactions, location_classifications,
                   location_subclassifications, applications,
                   statements, sequences, inflight>>

NextDate == ParseDate

SpecDate == InitDate /\ [][NextDate]_vars

\* A datetime at midnight.
Midnight(y, m, d) ==
    [year |-> y, month |-> m, day |-> d, hour |-> 0, minute |-> 0, second |-> 0]

\* C14: the patterns are YYYY-MM-DD, MM/DD/YYYY, MM/DD/YY,
\* YYYY-MM-DDTHH:MM:SS, MM-DD-YYYY, DD/MM/YYYY in this order and the result
\* is the parse of the first pattern that parses the stripped cell; a
\* slash-separated date with a four-digit year is read day-first only when
\* its month-first reading is no date (03/04/2025 is 4 March, 13/04/2025 is
\* 13 April); an empty, whitespace-only or unmatched cell gives no value.
C14_DatePatternOrder ==
    response.op = "_parse_date" =>
      LET v == response.value
          r == response.result
          s == IF v = None THEN <<>> ELSE Strip(v[1])
          month_first == strptime(s, <<"m", "/", "d", "/", "Y">>)
          day_first == strptime(s, <<"d", "/", "m", "/", "Y">>)
      IN /\ formats = << <<"Y", "-", "m", "-", "d">>,
                         <<"m", "/", "d", "/", "Y">>,
                         <<"m", "/", "d", "/", "y">>,
                         <<"Y", "-", "m", "-", "d", "T", "H", ":", "M", ":", "S">>,
                         <<"m", "-", "d", "-", "Y">>,
                         <<"d", "/", "m", "/", "Y">> >>
         /\ s = <<>> => r = None
         /\ (s # <<>> /\ \A i \in 1..Len(formats) : strptime(s, formats[i]) = None)
               => r = None
         /\ \A i \in 1..Len(formats) :
              (s # <<>> /\ strptime(s, formats[i]) # None
                        /\ \A j \in 1..(i - 1) : strptime(s, formats[j]) = None)
                => r = strptime(s, formats[i])
         /\ (s # <<>> /\ month_first # None) => r = month_first
         /\ (s # <<>> /\ month_first = None /\ day_first # None) => r = day_first
         /\ s = <<"0", "3", "/", "0", "4", "/", "2", "0", "2", "5">>
               => r = Some(Midnight(2025, 3, 4))
         /\ s = <<"1", "3", "/", "0", "4", "/", "2", "0", "2", "5">>
               => r = Some(Midnight(2025, 4, 13))
         /\ s = <<"2", "0", "2", "5", "-", "0", "1", "-", "1", "5">>
               => r = Some(Midnight(2025, 1, 15))
         /\ s = <<"0", "3", "/", "0", "4", "/", "2", "5">>
               => r = Some(Midnight(2025, 3, 4))
         /\ s = <<"0", "3", "/", "0", "4", "/", "9", "9">>
               => r = Some(Midnight(1999, 3, 4))
         /\ s = <<"0", "3", "-", "0", "4", "-", "2", "0", "2", "5">>
               => r = Some(Midnight(2025, 3, 4))
         /\ s = <<"2", "0", "2", "5", "-", "0", "1", "-", "1", "5",
                  "T", "1", "0", ":", "3", "0", ":", "0", "0">>
               => r = Some([Midnight(2025, 1, 15) EXCEPT !.hour = 10, !.minute = 30])
         /\ s \in {<<"a", "b", "c">>,
                   <<"0", "2", "/", "3", "0", "/", "2", "0", "2", "5">>,
                   <<"0", "3", "/", "0", "4", "-", "2", "0", "2", "5">>,
                   <<"1", "3", "-", "0", "4", "-", "2", "0", "2", "5">>}
               => r = None

\* 13/04/2025 was parsed: month 13 is no month, so the day-first pattern,
\* the last one, gave 13 April.
C14_Witness ==
    /\ response.op = "_parse_date"
    /\ response.value = Some(<<"1", "3", "/", "0", "4", "/", "2", "0", "2", "5">>)
    /\ response.result = Some(Midnight(2025, 4, 13))

\* ------------------------------------------------------------------------
\* Raw rows (Spec)
\* ------------------------------------------------------------------------
\* C15: no operation changes the raw_data of a stored transaction.
C15_RawDataImmutable ==
    [][\A t \in DOMAIN transactions :
         t \in DOMAIN transactions' =>
           transactions'[t].raw_data = transactions[t].raw_data]_vars

\* ------------------------------------------------------------------------
\* Sign convention (SpecMapper) and accepted mappings (Spec)
\* ------------------------------------------------------------------------
\* C16: in split debit/credit mode a row whose only non-zero entry is in the
\* debit column gets an amount <= 0 and a row whose only non-zero entry is
\* in the credit column gets an amount >= 0, whatever the sign written in
\* the cell.
C16_SignConvention ==
    \A t \in DOMAIN transactions :
      (Mapped(t) /\ SchemaOf(t).amount_column_format = NoCol) =>
        LET d == ParsedCell(t, SchemaOf(t).debit_column)
            c == ParsedCell(t, SchemaOf(t).credit_column)
            amount == transactions[t].amount
            NonZero(x) == x # None /\ x[1].fin /\ x[1].v # 0
            ZeroOrAbsent(x) == x = None \/ (x[1].fin /\ x[1].v = 0)
        IN /\ (NonZero(d) /\ ZeroOrAbsent(c)) => (amount # None /\ amount[1].v <= 0)
           /\ (NonZero(c) /\ ZeroOrAbsent(d)) => (amount # None /\ amount[1].v >= 0)

\* C17: the mapping stored on an account has exactly one amount
\* configuration: an amount column with a sign mode, or a debit/credit
\* column pair, never both and never neither.
C17_OneAmountConfiguration ==
    \A a \in DOMAIN accounts :
      accounts[a].file_upload_schema # None =>
        LET s == accounts[a].file_upload_schema[1]
            single == /\ s.schema.amount # NoCol
                      /\ s.amount_column_format \in {"debit_is_negative", "debit_is_positive"}
            split == s.debit_column # NoCol /\ s.credit_column # NoCol
            any_single == s.schema.amount # NoCol \/ s.amount_column_format # NoCol
            any_split == s.debit_column # NoCol \/ s.credit_column # NoCol
        IN \/ single /\ ~any_split
           \/ split /\ ~any_single

\* ------------------------------------------------------------------------
\* seed_location_classifications (management command)
\* ------------------------------------------------------------------------
STANDARD_SIGN_TYPES == {"checking", "savings", "credit_card", "investment", "loan"}
TRANSFER_CATEGORY == <<"N", "/", "A">>
ClassificationTypes == {"income", "expense", "transfer"}

\* infer_type_from_account_and_amount with a zero amount counted as income.
infer_type_zero_is_income(account_type, amount) ==
    IF account_type \in STANDARD_SIGN_TYPES
    THEN (IF amount # None /\ amount[1].v >= 0 THEN "income" ELSE "expense")
    ELSE "expense"

\* amount is None or Some(Decimal); a stored amount is finite.
infer_type_from_account_and_amount(account_type, amount) ==
    IF account_type \in STANDARD_SIGN_TYPES
    THEN (IF amount # None /\ amount[1].v > 0 THEN "income" ELSE "expense")
    ELSE "expense"

\* (x or '').strip()
Trimmed(x) == IF x = None THEN <<>> ELSE Strip(x[1])
\* (tx.subcategory or '').strip() or None
SubcatOf(tx) == IF Trimmed(tx.subcategory) = <<>> THEN None ELSE Some(Trimmed(tx.subcategory))

\* Step 1 (lines 62-75). The type a transaction with a non-blank category
\* votes for.
VoteOf(tx) ==
    IF Trimmed(tx.category) = TRANSFER_CATEGORY THEN "transfer"
    ELSE infer_type_from_account_and_amount(accounts[tx.account].type, tx.amount)

\* The keys of type_votes: the non-blank trimmed categories.
VotedCategories == {Trimmed(transactions[t].category) : t \in DOMAIN transactions} \ {<<>>}

\* type_votes[cat][type]; a type nobody voted for has no key in the code
\* and the count 0 here.
type_votes ==
    [cat \in VotedCategories |->
       [ty \in ClassificationTypes |->
          Cardinality({t \in DOMAIN transactions :
                         /\ Trimmed(transactions[t].category) = cat
                         /\ VoteOf(transactions[t]) = ty})]]

subcats_by_cat ==
    [cat \in VotedCategories |->
       {SubcatOf(transactions[t]) :
          t \in {x \in DOMAIN transactions : Trimmed(transactions[x].category) = cat}}]

\* Step 2 (lines 82-92) with the least-voted type taken as the winner.
WinnersLeastVoted(votes) ==
    {ty \in ClassificationTypes :
       votes[ty] > 0 /\ \A o \in ClassificationTypes : votes[o] > 0 => votes[ty] <= votes[o]}

\* Step 2 (lines 82-92): the types max(votes, key=...) can return. Among
\* the types with the most votes max takes the first key of the dict, which
\* is the type voted first in the order the unordered query returned the
\* rows: any of them.
Winners(votes) ==
    {ty \in ClassificationTypes :
       votes[ty] > 0 /\ \A o \in ClassificationTypes : votes[o] <= votes[ty]}

\* The values resolved can take, and conflicts.
Resolutions ==
    {r \in [VotedCategories -> ClassificationTypes] :
       \A cat \in VotedCategories : r[cat] \in Winners(type_votes[cat])}
conflicts ==
    {cat \in VotedCategories :
       Cardinality({ty \in ClassificationTypes : type_votes[cat][ty] > 0}) > 1}

\* The members of a set in some order.
RECURSIVE SetToSeq(_)
SetToSeq(S) ==
    IF S = {} THEN <<>>
    ELSE LET x == CHOOSE x \in S : TRUE IN <<x>> \o SetToSeq(S \ {x})

\* The rows get_or_create(name=cat) looks at.
ClassificationsNamed(table, name) == {c \in DOMAIN table : table[c].name = name}

\* Step 3 with update_or_create in place of get_or_create: an existing row
\* takes the inferred type.
RECURSIVE WithClassificationsUpdating(_, _, _)
WithClassificationsUpdating(table, cats, resolved) ==
    IF cats = <<>> THEN table
    ELSE LET cat == Head(cats)
             id == NextId(table)
         IN IF ClassificationsNamed(table, cat) # {}
            THEN WithClassificationsUpdating(
                   [c \in DOMAIN table |->
                      IF table[c].name = cat THEN [table[c] EXCEPT !.type = resolved[cat]]
                      ELSE table[c]],
                   Tail(cats), resolved)
            ELSE WithClassificationsUpdating(
                   [c \in DOMAIN table \cup {id} |->
                      IF c = id THEN [name |-> cat, type |-> resolved[cat]] ELSE table[c]],
                   Tail(cats), resolved)

\* Step 3 (lines 129-142): get_or_create(name=cat, defaults={'type': ...})
\* for the categories cats in turn.
RECURSIVE WithClassifications(_, _, _)
WithClassifications(table, cats, resolved) ==
    IF cats = <<>> THEN table
    ELSE LET cat == Head(cats)
             id == NextId(table)
         IN IF ClassificationsNamed(table, cat) # {}
            THEN WithClassifications(table, Tail(cats), resolved)
            ELSE WithClassifications(
                   [c \in DOMAIN table \cup {id} |->
                      IF c = id THEN [name |-> cat, type |-> resolved[cat]] ELSE table[c]],
                   Tail(cats), resolved)

\* cat_to_lc[cat] once step 3 is through.
cat_to_lc(table, cat) == CHOOSE c \in DOMAIN table : table[c].name = cat

\* The rows get_or_create(location_classification=lc, name=subcat) looks at.
SubClassificationsNamed(table, lc, name) ==
    {b \in DOMAIN table : table[b].location_classification = lc /\ table[b].name = name}

\* The (category, subcategory) pairs of step 4 with a subcategory.
SubcatPairs ==
    UNION {{<<cat, sub[1]>> : sub \in subcats_by_cat[cat] \ {None}} :
             cat \in VotedCategories}

\* Step 4 with objects.create in place of get_or_create: a row is made for
\* every pair, whether one exists or not.
RECURSIVE WithSubClassificationsCreating(_, _, _)
WithSubClassificationsCreating(table, pairs, classes) ==
    IF pairs = <<>> THEN table
    ELSE LET lc == cat_to_lc(classes, Head(pairs)[1])
             id == NextId(table)
         IN WithSubClassificationsCreating(
              [b \in DOMAIN table \cup {id} |->
                 IF b = id
                 THEN [location_classification |-> lc, name |-> Head(pairs)[2]]
                 ELSE table[b]],
              Tail(pairs), classes)

\* Step 4 (lines 149-163): get_or_create of the subclassification of each
\* pair, under the classification classes holds for the category.
RECURSIVE WithSubClassifications(_, _, _)
WithSubClassifications(table, pairs, classes) ==
    IF pairs = <<>> THEN table
    ELSE LET lc == cat_to_lc(classes, Head(pairs)[1])
             id == NextId(table)
         IN IF SubClassificationsNamed(table, lc, Head(pairs)[2]) # {}
            THEN WithSubClassifications(table, Tail(pairs), classes)
            ELSE WithSubClassifications(
                   [b \in DOMAIN table \cup {id} |->
                      IF b = id
                      THEN [location_classification |-> lc, name |-> Head(pairs)[2]]
                      ELSE table[b]],
                   Tail(pairs), classes)

\* get_or_create raises MultipleObjectsReturned when more than one row
\* matches: names are not unique (models.py 65, 79).
GetOrCreateRaises ==
    \/ \E cat \in VotedCategories :
         Cardinality(ClassificationsNamed(location_classifications, cat)) > 1
    \/ \E p \in SubcatPairs :
         /\ ClassificationsNamed(location_classifications, p[1]) # {}
         /\ Cardinality(SubClassificationsNamed(
                          location_subclassifications,
                          cat_to_lc(location_classifications, p[1]), p[2])) > 1

\* Step 5 without the location_classification__isnull=True filter: the
\* transactions that have a classification already are re-attached too.
BackFilledOverwriting(tx, classes, subs) ==
    IF Trimmed(tx.category) # <<>>
    THEN [tx EXCEPT
            !.location_classification = Some(cat_to_lc(classes, Trimmed(tx.category))),
            !.location_subclassification =
               IF SubcatOf(tx) = None THEN None
               ELSE Some(CHOOSE b \in DOMAIN subs :
                           /\ subs[b].location_classification =
                                cat_to_lc(classes, Trimmed(tx.category))
                           /\ subs[b].name = SubcatOf(tx)[1])]
    ELSE tx

\* Step 5 (lines 172-203): the transactions with no location classification
\* and a non-blank category take the classification of the category and the
\* subclassification of the pair.
BackFilled(tx, classes, subs) ==
    IF tx.location_classification = None /\ Trimmed(tx.category) # <<>>
    THEN [tx EXCEPT
            !.location_classification = Some(cat_to_lc(classes, Trimmed(tx.category))),
            !.location_subclassification =
               IF SubcatOf(tx) = None THEN None
               ELSE Some(CHOOSE b \in DOMAIN subs :
                           /\ subs[b].location_classification =
                                cat_to_lc(classes, Trimmed(tx.category))
                           /\ subs[b].name = SubcatOf(tx)[1])]
    ELSE tx

\* Command.handle (lines 42-210). Steps 3 to 5 run in one atomic block: a
\* raise inside it leaves the tables as they were.
Backfill(dry_run) ==
    /\ \E resolved \in Resolutions :
         /\ response' = [op |-> "backfill", dry_run |-> dry_run,
                         raised |-> ~dry_run /\ GetOrCreateRaises,
                         type_votes |-> type_votes, resolved |-> resolved,
                         conflicts |-> conflicts]
         /\ IF dry_run \/ GetOrCreateRaises
            THEN UNCHANGED <<location_classifications, location_subclassifications,
                             transactions>>
            ELSE \E classes \in {WithClassifications(location_classifications,
                                                     SetToSeq(VotedCategories), resolved)} :
                 \E subs \in {WithSubClassifications(location_subclassifications,
                                                     SetToSeq(SubcatPairs), classes)} :
                   /\ location_classifications' = classes
                   /\ location_subclassifications' = subs
                   /\ transactions' =
                        [t \in DOMAIN transactions |->
                           BackFilled(transactions[t], classes, subs)]
    /\ UNCHANGED <<accounts, file_uploads, applications, statements, inflight>>
    /\ sequences' = Sequences'

\* ------------------------------------------------------------------------
\* SpecBackfill: the backfill command run on a stored set of transactions
\* ------------------------------------------------------------------------
\* A stored transaction as the backfill reads it.
BackfillRow(account, category, subcategory, amount, cls) ==
    [NewTransaction(account, None, <<>>) EXCEPT
       !.category = category,
       !.subcategory = subcategory,
       !.amount = IF amount = None THEN None ELSE Some(Finite(amount[1])),
       !.location_classification = cls]

Food == <<"F", "o", "o", "d">>
Misc == <<"M", "i", "s", "c">>
Out == <<"O", "u", "t">>

\* Tables of one transaction: every kind of category, amount and
\* subcategory, classified already or not.
SingleRowTables ==
    {[t \in {1} |-> BackfillRow(1, category, subcategory, amount, cls)] :
       category \in {None, Some(<<" ", " ">>), Some(Food),
                     Some(<<" ", "F", "o", "o", "d", " ">>), Some(TRANSFER_CATEGORY)},
       subcategory \in {None, Some(Out), Some(<<" ">>)},
       amount \in {None, Some(0), Some(500), Some(-500)},
       cls \in {None, Some(1)}}

\* Tables of several transactions that vote on the same categories.
VotingRows ==
    {BackfillRow(1, Some(Food), None, Some(500), None),
     BackfillRow(1, Some(Food), None, Some(-500), None),
     BackfillRow(1, Some(Food), Some(Out), Some(500), None),
     BackfillRow(1, Some(TRANSFER_CATEGORY), None, Some(500), None),
     BackfillRow(2, Some(Food), None, Some(0), None)}
VotingTables == UNION {[1..n -> VotingRows] : n \in 2..MaxBackfillRows}

\* "Misc" voted 3 x income and 5 x expense.
MiscTable ==
    [t \in 1..8 |-> BackfillRow(2, Some(Misc), None,
                                IF t <= 3 THEN Some(500) ELSE Some(-500), None)]

\* The classifications stored before the run: none, a "Food" of a type the
\* votes never give it, or two rows named "Food".
ExistingClassifications ==
    {NoRows,
     [c \in {1} |-> [name |-> Food, type |-> "transfer"]],
     [c \in {1, 2} |-> [name |-> Food,
                        type |-> IF c = 1 THEN "transfer" ELSE "income"]]}
ExistingSubClassifications(classes) ==
    IF classes = NoRows THEN {NoRows}
    ELSE {NoRows, [b \in {1} |-> [location_classification |-> 1, name |-> Out]]}

InitBackfill ==
    /\ \E ty \in STANDARD_SIGN_TYPES \cup {"other"} :
         accounts = [a \in {1, 2} |->
                       [type |-> IF a = 1 THEN ty ELSE "checking",
                        file_upload_schema |-> None]]
    /\ location_classifications \in ExistingClassifications
    /\ location_subclassifications \in ExistingSubClassifications(location_classifications)
    /\ transactions \in SingleRowTables \cup VotingTables \cup {MiscTable}
    /\ DOMAIN transactions # {1} => accounts[1].type \in {"checking", "other"}
    /\ \A t \in DOMAIN transactions :
         transactions[t].location_classification # None =>
           transactions[t].location_classification[1] \in DOMAIN location_classifications
    /\ file_uploads = NoRows
    /\ response = NoResponse
    /\ applications = [t \in DOMAIN transactions |-> 0]
    /\ statements = NoRows
    /\ sequences = Sequences
    /\ inflight = NoRows

NextBackfill == \E dry_run \in BOOLEAN : Backfill(dry_run)

SpecBackfill == InitBackfill /\ [][NextBackfill]_vars

\* ------------------------------------------------------------------------
\* Properties of the backfill (SpecBackfill)
\* ------------------------------------------------------------------------
\* C18: a transaction whose trimmed category is "N/A" votes transfer; any
\* other transaction with a non-blank category votes income when its account
\* is of type checking, savings, credit_card, investment or loan and its
\* amount is positive, and expense otherwise (amount zero, negative or null,
\* or any other account type); a transaction with a blank category votes
\* for nothing.
C18_BackfillVote ==
    response.op = "backfill" =>
      LET Category(t) == IF transactions[t].category = None THEN <<>>
                         ELSE Strip(transactions[t].category[1])
          Standard(t) == accounts[transactions[t].account].type \in
                           {"checking", "savings", "credit_card", "investment", "loan"}
          Positive(t) == /\ transactions[t].amount # None
                         /\ transactions[t].amount[1].v > 0
          Expected(t) == IF Category(t) = <<"N", "/", "A">> THEN "transfer"
                         ELSE IF Standard(t) /\ Positive(t) THEN "income"
                         ELSE "expense"
          Voters == {t \in DOMAIN transactions : Category(t) # <<>>}
      IN /\ DOMAIN response.type_votes = {Category(t) : t \in Voters}
         /\ \A cat \in DOMAIN response.type_votes :
              \A ty \in {"income", "expense", "transfer"} :
                response.type_votes[cat][ty] =
                  Cardinality({t \in Voters : Category(t) = cat /\ Expected(t) = ty})

\* The one transaction, on a loan account, with category " Food " and the
\* amount 0, voted expense for "Food".
C18_Witness ==
    /\ response.op = "backfill"
    /\ DOMAIN transactions = {1}
    /\ accounts[1].type = "loan"
    /\ transactions[1].category = Some(<<" ", "F", "o", "o", "d", " ">>)
    /\ transactions[1].amount = Some(Finite(0))
    /\ response.type_votes[Food] = [income |-> 0, expense |-> 1, transfer |-> 0]

\* C19: the type resolved for a category has at least as many votes as any
\* other type voted for it; the conflicts are exactly the categories with
\* votes for two or more types; a conflict does not stop the run: it raises
\* only when two stored classifications share a name, and otherwise the
\* transactions of a conflicting category are classified; 3 income and 5
\* expense votes resolve to expense and are flagged.
C19_Plurality ==
    response.op = "backfill" =>
      LET v == response.type_votes
          r == response.resolved
          Voted(cat) == {ty \in {"income", "expense", "transfer"} : v[cat][ty] > 0}
      IN /\ DOMAIN r = DOMAIN v
         /\ \A cat \in DOMAIN v :
              /\ r[cat] \in Voted(cat)
              /\ \A ty \in Voted(cat) : v[cat][r[cat]] >= v[cat][ty]
              /\ v[cat] = [income |-> 3, expense |-> 5, transfer |-> 0] =>
                   (r[cat] = "expense" /\ cat \in response.conflicts)
         /\ response.conflicts = {cat \in DOMAIN v : Cardinality(Voted(cat)) >= 2}
         /\ response.raised =>
              \E c1, c2 \in DOMAIN location_classifications :
                /\ c1 # c2
                /\ location_classifications[c1].name = location_classifications[c2].name
         /\ (~response.dry_run /\ ~response.raised) =>
              \A t \in DOMAIN transactions :
                Trimmed(transactions[t].category) \in response.conflicts =>
                  transactions[t].location_classification # None

\* "Misc" with 3 income and 5 expense votes was resolved to expense,
\* flagged, and its transactions were classified.
C19_Witness ==
    /\ response.op = "backfill"
    /\ ~response.dry_run
    /\ ~response.raised
    /\ Misc \in DOMAIN response.type_votes
    /\ response.type_votes[Misc] = [income |-> 3, expense |-> 5, transfer |-> 0]
    /\ response.resolved[Misc] = "expense"
    /\ response.conflicts = {Misc}
    /\ \A t \in DOMAIN transactions :
         /\ transactions[t].location_classification # None
         /\ location_classifications[transactions[t].location_classification[1]].name = Misc

\* C20: a run of the backfill leaves every stored classification as it
\* was, also when the type inferred for its name differs; it creates a
\* classification only for a resolved category of which no classification
\* of that name exists, one per name, with the inferred type.
C20_ExistingWins ==
    [][(response'.op = "backfill" /\ ~response'.dry_run) =>
         /\ \A c \in DOMAIN location_classifications :
              /\ c \in DOMAIN location_classifications'
              /\ location_classifications'[c] = location_classifications[c]
         /\ \A c \in DOMAIN location_classifications' \ DOMAIN location_classifications :
              LET name == location_classifications'[c].name IN
              /\ ClassificationsNamed(location_classifications, name) = {}
              /\ ClassificationsNamed(location_classifications', name) = {c}
              /\ name \in DOMAIN response'.resolved
              /\ location_classifications'[c].type = response'.resolved[name]
         /\ ~response'.raised =>
              \A cat \in DOMAIN response'.resolved :
                ClassificationsNamed(location_classifications', cat) # {}]_vars

\* The stored "Food" is a transfer category, the votes made it income: it
\* is still the only "Food", still transfer, and the transactions were
\* attached to it.
C20_Witness ==
    /\ response.op = "backfill"
    /\ ~response.dry_run
    /\ ~response.raised
    /\ DOMAIN location_classifications = {1}
    /\ location_classifications[1] = [name |-> Food, type |-> "transfer"]
    /\ response.resolved = (Food :> "income")
    /\ Cardinality(DOMAIN transactions) >= 2
    /\ \A t \in DOMAIN transactions : transactions[t].location_classification = Some(1)

\* C21: a run of the backfill that is not a dry run and does not raise
\* attaches every transaction that had no location classification and a
\* non-blank category to the classification named by its trimmed category
\* and to the subclassification named by its trimmed subcategory under that
\* classification (to none when the subcategory is blank), and changes no
\* other field of it; a transaction with a blank category or with a
\* location classification is left exactly as it was.
C21_BackfillAttach ==
    [][(response'.op = "backfill" /\ ~response'.dry_run /\ ~response'.raised) =>
         /\ DOMAIN transactions' = DOMAIN transactions
         /\ \A t \in DOMAIN transactions :
              LET old == transactions[t]
                  new == transactions'[t]
                  cat == IF old.category = None THEN <<>> ELSE Strip(old.category[1])
                  sub == IF old.subcategory = None THEN <<>> ELSE Strip(old.subcategory[1])
              IN IF old.location_classification = None /\ cat # <<>>
                 THEN /\ new.location_classification # None
                      /\ new.location_classification[1] \in DOMAIN location_classifications'
                      /\ location_classifications'[new.location_classification[1]].name = cat
                      /\ sub = <<>> => new.location_subclassification = None
                      /\ sub # <<>> =>
                           /\ new.location_subclassification # None
                           /\ new.location_subclassification[1] \in
                                DOMAIN location_subclassifications'
                           /\ location_subclassifications'[
                                new.location_subclassification[1]] =
                                [location_classification |-> new.location_classification[1],
                                 name |-> sub]
                      /\ new = [old EXCEPT
                                  !.location_classification = new.location_classification,
                                  !.location_subclassification =
                                     new.location_subclassification]
                 ELSE new = old]_vars

\* The one transaction, of category " Food " and subcategory "Out" and with
\* no classification, is attached to the "Food" and the "Food" > "Out" the
\* run created.
C21_Witness ==
    /\ response.op = "backfill"
    /\ ~response.dry_run
    /\ ~response.raised
    /\ DOMAIN transactions = {1}
    /\ transactions[1].category = Some(<<" ", "F", "o", "o", "d", " ">>)
    /\ transactions[1].subcategory = Some(Out)
    /\ location_classifications = (1 :> [name |-> Food, type |-> "income"])
    /\ location_subclassifications = (1 :> [location_classification |-> 1, name |-> Out])
    /\ transactions[1].location_classification = Some(1)
    /\ transactions[1].location_subclassification = Some(1)

\* C22: a run of the backfill (not a dry run) that starts in the state a
\* run that went through left behind goes through too, creates no
\* classification and no subclassification and changes no transaction.
C22_BackfillIdempotent ==
    [][(/\ response.op = "backfill" /\ ~response.dry_run /\ ~response.raised
        /\ response'.op = "backfill" /\ ~response'.dry_run) =>
         /\ ~response'.raised
         /\ location_classifications' = location_classifications
         /\ location_subclassifications' = location_subclassifications
         /\ transactions' = transactions]_vars

\* "Food" had one income and one expense vote. An earlier run resolved it
\* to income and created it; the last run resolved it to expense and found
\* the "Food" of the earlier run: there is still one "Food", of type income.
C22_Witness ==
    /\ response.op = "backfill"
    /\ ~response.dry_run
    /\ ~response.raised
    /\ Food \in DOMAIN response.type_votes
    /\ response.type_votes[Food] = [income |-> 1, expense |-> 1, transfer |-> 0]
    /\ response.resolved[Food] = "expense"
    /\ ClassificationsNamed(location_classifications, Food) = {1}
    /\ location_classifications[1].type = "income"
    /\ \A t \in DOMAIN transactions : transactions[t].location_classification # None

\* ------------------------------------------------------------------------
\* Statements and their management commands
\* ------------------------------------------------------------------------
\* A Statement row as the commands and StatementSerializer (serializers.py
\* 154-159) use it: its account, period_start (null or a date) and
\* period_end (a date). Dates are day numbers. The balances, which no
\* command reads or writes, are left out.
StatementRow(account, period_start, period_end) ==
    [account |-> account, period_start |-> period_start, period_end |-> period_end]

\* The rows of qs (backfill_statement_open_dates.py 43-49, the same filter
\* in adjust_statement_period_end.py 55-57).
StatementsInScope(account_id) ==
    {s \in DOMAIN statements :
       account_id = None \/ statements[s].account = account_id[1]}

\* The sequences that hold every member of S once.
Orderings(S) ==
    {q \in [1..Cardinality(S) -> S] : \A i, j \in DOMAIN q : q[i] = q[j] => i = j}

\* by_account[a] (lines 43-55): the statements of account a in the order of
\* order_by('account_id', 'period_end'). Rows of one account with the same
\* period_end come in an order the query does not determine.
AccountOrders(a) ==
    {q \in Orderings({s \in DOMAIN statements : statements[s].account = a}) :
       \A i, j \in DOMAIN q :
          i < j => statements[q[i]].period_end <= statements[q[j]].period_end}

\* The ways to order the statements of every account the run covers.
ScopeOrders(account_id) ==
    LET scope == {statements[s].account : s \in StatementsInScope(account_id)}
    IN {o \in [scope -> UNION {AccountOrders(a) : a \in scope}] :
          \A a \in scope : o[a] \in AccountOrders(a)}

\* The position of s in q.
PositionIn(q, s) == CHOOSE i \in DOMAIN q : q[i] = s

\* The loop body (lines 62-92) with delta >= 32 as the test of line 74.
OpenDateWithin31(stmts, i) ==
    LET stmt == statements[stmts[i]] IN
    IF stmt.period_start # None THEN "has_start"
    ELSE IF i = 1 THEN "no_predecessor"
    ELSE IF stmt.period_end - statements[stmts[i - 1]].period_end >= 32 THEN "too_far"
    ELSE "set"

\* The loop body (lines 62-92) for the statement at position i (from 1) of
\* the list stmts of its account: what the run does with it.
OpenDateOutcome(stmts, i) ==
    LET stmt == statements[stmts[i]] IN
    IF stmt.period_start # None THEN "has_start"
    ELSE IF i = 1 THEN "no_predecessor"
    ELSE IF stmt.period_end - statements[stmts[i - 1]].period_end > 32 THEN "too_far"
    ELSE "set"

\* The outcome of every statement of the run, under the orders o.
OpenDateOutcomes(account_id, o) ==
    [s \in StatementsInScope(account_id) |->
       OpenDateOutcome(o[statements[s].account],
                       PositionIn(o[statements[s].account], s))]

\* The statements table once bulk_updates is written (lines 91-92, 103-110).
WithOpenDates(account_id, o) ==
    [s \in DOMAIN statements |->
       IF s \in StatementsInScope(account_id)
          /\ OpenDateOutcomes(account_id, o)[s] = "set"
       THEN LET q == o[statements[s].account] IN
            [statements[s] EXCEPT
               !.period_start = Some(statements[q[PositionIn(q, s) - 1]].period_end)]
       ELSE statements[s]]

\* backfill_statement_open_dates without the return of the dry run (lines
\* 94-101): the updates are written in a dry run too.
BackfillStatementOpenDatesWriting(dry_run, account_id) ==
    /\ IF account_id # None /\ account_id[1] \notin DOMAIN accounts
       THEN /\ response' = [op |-> "backfill_statement_open_dates", dry_run |-> dry_run,
                            account_id |-> account_id, exit |-> TRUE]
            /\ UNCHANGED statements
       ELSE \E o \in ScopeOrders(account_id) :
            \E outcomes \in {OpenDateOutcomes(account_id, o)} :
              /\ response' =
                   [op |-> "backfill_statement_open_dates", dry_run |-> dry_run,
                    account_id |-> account_id, exit |-> FALSE,
                    to_update |-> {s \in DOMAIN outcomes : outcomes[s] = "set"},
                    skipped_no_predecessor |->
                       Cardinality({s \in DOMAIN outcomes : outcomes[s] = "no_predecessor"}),
                    skipped_too_far |->
                       Cardinality({s \in DOMAIN outcomes : outcomes[s] = "too_far"})]
              /\ statements' = WithOpenDates(account_id, o)
    /\ UNCHANGED <<accounts, file_uploads, transactions, location_classifications,
                   location_subclassifications, applications, sequences, inflight>>

\* backfill_statement_open_dates Command.handle (lines 28-116). The updates
\* are written in one atomic block (line 105).
BackfillStatementOpenDates(dry_run, account_id) ==
    /\ IF account_id # None /\ account_id[1] \notin DOMAIN accounts
       THEN /\ response' = [op |-> "backfill_statement_open_dates", dry_run |-> dry_run,
                            account_id |-> account_id, exit |-> TRUE]
            /\ UNCHANGED statements
       ELSE \E o \in ScopeOrders(account_id) :
            \E outcomes \in {OpenDateOutcomes(account_id, o)} :
              /\ response' =
                   [op |-> "backfill_statement_open_dates", dry_run |-> dry_run,
                    account_id |-> account_id, exit |-> FALSE,
                    to_update |-> {s \in DOMAIN outcomes : outcomes[s] = "set"},
                    skipped_no_predecessor |->
                       Cardinality({s \in DOMAIN outcomes : outcomes[s] = "no_predecessor"}),
                    skipped_too_far |->
                       Cardinality({s \in DOMAIN outcomes : outcomes[s] = "too_far"})]
              /\ statements' = IF dry_run THEN statements
                               ELSE WithOpenDates(account_id, o)
    /\ UNCHANGED <<accounts, file_uploads, transactions, location_classifications,
                   location_subclassifications, applications, sequences, inflight>>

\* The values of --days the model draws from.
ShiftDays == {0, 34}

\* adjust_statement_period_end Command.handle (lines 34-91): period_end of
\* every statement of the scope moves by days; period_start is not touched.
AdjustStatementPeriodEnd(days, dry_run, account_id) ==
    /\ \A s \in StatementsInScope(account_id) :
         statements[s].period_end + days \in 0..MaxDay
    /\ IF days = 0 \/ (account_id # None /\ account_id[1] \notin DOMAIN accounts)
       THEN /\ response' = [op |-> "adjust_statement_period_end", dry_run |-> dry_run,
                            account_id |-> account_id, days |-> days, exit |-> TRUE]
            /\ UNCHANGED statements
       ELSE /\ response' = [op |-> "adjust_statement_period_end", dry_run |-> dry_run,
                            account_id |-> account_id, days |-> days, exit |-> FALSE,
                            to_update |-> StatementsInScope(account_id)]
            /\ statements' =
                 IF dry_run THEN statements
                 ELSE [s \in DOMAIN statements |->
                         IF s \in StatementsInScope(account_id)
                         THEN [statements[s] EXCEPT !.period_end = @ + days]
                         ELSE statements[s]]
    /\ UNCHANGED <<accounts, file_uploads, transactions, location_classifications,
                   location_subclassifications, applications, sequences, inflight>>

\* ------------------------------------------------------------------------
\* SpecStatement: the period-start backfill run on stored statements
\* ------------------------------------------------------------------------
\* Statements of accounts 1 and 2: period_end on day 0, 32 or 33 (32 and 33
\* days after day 0, one day apart) with no period_start, or with one.
StatementSamples ==
    <<StatementRow(1, None, 0), StatementRow(1, None, 32), StatementRow(1, None, 33),
      StatementRow(1, Some(0), 33),
      StatementRow(2, None, 0), StatementRow(2, None, 32), StatementRow(2, None, 33),
      StatementRow(2, Some(0), 33)>>

\* The tables of up to MaxStatements sample rows. No command looks at the
\* ids other than to write every row of its scope, so the tables that list
\* the samples in their order stand for the others.
StatementTables ==
    UNION {{[i \in 1..n |-> StatementSamples[f[i]]] :
              f \in {g \in [1..n -> DOMAIN StatementSamples] :
                       \A i, j \in 1..n : i < j => g[i] <= g[j]}} :
           n \in 0..MaxStatements}

\* The values of --account: none, an account, and an id no account has.
AccountOptions == {None, Some(1), Some(3)}

InitStatement ==
    /\ accounts = [a \in {1, 2} |-> [type |-> "checking", file_upload_schema |-> None]]
    /\ file_uploads = NoRows
    /\ transactions = NoRows
    /\ location_classifications = NoRows
    /\ location_subclassifications = NoRows
    /\ statements \in StatementTables
    /\ response = NoResponse
    /\ applications = NoRows
    /\ sequences = Sequences
    /\ inflight = NoRows

NextStatement ==
    \E dry_run \in BOOLEAN : \E account_id \in AccountOptions :
      BackfillStatementOpenDates(dry_run, account_id)

SpecStatement == InitStatement /\ [][NextStatement]_vars

\* ------------------------------------------------------------------------
\* SpecCommands: the three management commands run on stored rows
\* ------------------------------------------------------------------------
\* Two statements of account 1.
CommandStatements ==
    {[i \in {1, 2} |-> StatementSamples[f[i]]] :
       f \in {g \in [{1, 2} -> 1..4] : g[1] <= g[2]}}

\* One transaction to classify ("Food" > "Out"), or two that vote
\* differently on "Food".
CommandTransactions ==
    {[t \in {1} |-> BackfillRow(1, Some(Food), Some(Out), Some(500), None)],
     [t \in {1, 2} |-> BackfillRow(1, Some(Food), None,
                                   IF t = 1 THEN Some(500) ELSE Some(-500), None)]}

InitCommands ==
    /\ accounts = [a \in {1, 2} |-> [type |-> "checking", file_upload_schema |-> None]]
    /\ file_uploads = NoRows
    /\ transactions \in CommandTransactions
    /\ location_classifications = NoRows
    /\ location_subclassifications = NoRows
    /\ statements \in CommandStatements
    /\ response = NoResponse
    /\ applications = [t \in DOMAIN transactions |-> 0]
    /\ sequences = Sequences
    /\ inflight = NoRows

NextCommands ==
    \/ \E dry_run \in BOOLEAN : Backfill(dry_run)
    \/ \E dry_run \in BOOLEAN : \E account_id \in AccountOptions :
         BackfillStatementOpenDates(dry_run, account_id)
    \/ \E days \in ShiftDays : \E dry_run \in BOOLEAN : \E account_id \in AccountOptions :
         AdjustStatementPeriodEnd(days, dry_run, account_id)

SpecCommands == InitCommands /\ [][NextCommands]_vars

\* ------------------------------------------------------------------------
\* Properties of the management commands (SpecCommands)
\* ------------------------------------------------------------------------
\* C23: a run of the classification backfill, of the statement period-end
\* shift or of the statement period-start backfill with --dry-run leaves
\* every stored classification, subclassification, transaction and
\* statement (and every other row) as it was.
C23_DryRunWritesNothing ==
    [][(/\ response'.op \in {"backfill", "backfill_statement_open_dates",
                             "adjust_statement_period_end"}
        /\ response'.dry_run) =>
         /\ location_classifications' = location_classifications
         /\ location_subclassifications' = location_subclassifications
         /\ transactions' = transactions
         /\ statements' = statements
         /\ accounts' = accounts
         /\ file_uploads' = file_uploads]_vars

\* A dry run of the period-start backfill found a statement to update: its
\* period_start is still null.
C23_Witness ==
    /\ response.op = "backfill_statement_open_dates"
    /\ response.dry_run
    /\ ~response.exit
    /\ response.to_update # {}
    /\ \A s \in response.to_update : statements[s].period_start = None
    /\ \E t \in DOMAIN transactions : transactions[t].location_classification = None

\* ------------------------------------------------------------------------
\* Properties of the period-start backfill (SpecStatement)
\* ------------------------------------------------------------------------
\* C27 as claimed: in a run of the period-start backfill that is not a dry
\* run, a statement of a covered account with a null period_start that has
\* statements of its account before it gets the period_end of the one
\* immediately before it as period_start if and only if that is at most 32
\* days earlier; every other statement is left as it was; and a second run
\* right after the first changes nothing further.
C27_OpenDates ==
    [][(/\ response'.op = "backfill_statement_open_dates"
        /\ ~response'.dry_run /\ ~response'.exit) =>
         /\ DOMAIN statements' = DOMAIN statements
         /\ \A s \in DOMAIN statements :
              LET old == statements[s]
                  new == statements'[s]
                  covered == \/ response'.account_id = None
                             \/ response'.account_id = <<old.account>>
                  others == {p \in DOMAIN statements \ {s} :
                               statements[p].account = old.account}
                  before == {p \in others : statements[p].period_end < old.period_end}
                  equal == {p \in others : statements[p].period_end = old.period_end}
                  last == CHOOSE p \in before :
                            \A q \in before :
                               statements[q].period_end <= statements[p].period_end
              IN IF ~covered \/ old.period_start # None THEN new = old
                 ELSE IF equal # {}
                 THEN \/ new = old
                      \/ new = [old EXCEPT !.period_start = Some(old.period_end)]
                      \/ /\ before # {}
                         /\ old.period_end - statements[last].period_end <= 32
                         /\ new = [old EXCEPT
                                     !.period_start = Some(statements[last].period_end)]
                 ELSE IF before = {} THEN new = old
                 ELSE IF old.period_end - statements[last].period_end <= 32
                 THEN new = [old EXCEPT !.period_start = Some(statements[last].period_end)]
                 ELSE new = old
         /\ (/\ response.op = "backfill_statement_open_dates"
             /\ ~response.dry_run /\ ~response.exit
             /\ response.account_id = response'.account_id) =>
              statements' = statements]_vars

\* C27 as amended: the same, with the second run changing nothing further
\* in the accounts whose statements have pairwise different period_end
\* values. Of the statements of one account with the same period_end the
\* one the run takes first is not determined: every other of them gets
\* that period_end as its period_start, and the first the period_end of
\* the statement before them if it is at most 32 days earlier.
C27_OpenDatesDistinct ==
    [][(/\ response'.op = "backfill_statement_open_dates"
        /\ ~response'.dry_run /\ ~response'.exit) =>
         /\ DOMAIN statements' = DOMAIN statements
         /\ \A s \in DOMAIN statements :
              LET old == statements[s]
                  new == statements'[s]
                  covered == \/ response'.account_id = None
                             \/ response'.account_id = <<old.account>>
                  others == {p \in DOMAIN statements \ {s} :
                               statements[p].account = old.account}
                  before == {p \in others : statements[p].period_end < old.period_end}
                  equal == {p \in others : statements[p].period_end = old.period_end}
                  last == CHOOSE p \in before :
                            \A q \in before :
                               statements[q].period_end <= statements[p].period_end
                  distinct == \A p, q \in others \cup {s} :
                                 p # q => statements[p].period_end # statements[q].period_end
                  again == /\ response.op = "backfill_statement_open_dates"
                           /\ ~response.dry_run /\ ~response.exit
                           /\ response.account_id = response'.account_id
              IN /\ IF ~covered \/ old.period_start # None THEN new = old
                    ELSE IF equal # {}
                    THEN \/ new = old
                         \/ new = [old EXCEPT !.period_start = Some(old.period_end)]
                         \/ /\ before # {}
                            /\ old.period_end - statements[last].period_end <= 32
                            /\ new = [old EXCEPT
                                        !.period_start = Some(statements[last].period_end)]
                    ELSE IF before = {} THEN new = old
                    ELSE IF old.period_end - statements[last].period_end <= 32
                    THEN new = [old EXCEPT
                                  !.period_start = Some(statements[last].period_end)]
                    ELSE new = old
                 /\ (again /\ distinct) => new = old]_vars

\* A run over all accounts: the statement of account 1 that ends on day 32
\* took day 0, the period_end of the one before it, as its period_start;
\* the one of day 0 has none.
C27_Witness ==
    /\ response.op = "backfill_statement_open_dates"
    /\ ~response.dry_run /\ ~response.exit
    /\ response.account_id = None
    /\ \E s, p \in DOMAIN statements :
         /\ statements[s] = StatementRow(1, Some(0), 32)
         /\ statements[p] = StatementRow(1, None, 0)
         /\ s \in response.to_update
         /\ \A q \in DOMAIN statements \ {s, p} : statements[q].account = 2

\* ------------------------------------------------------------------------
\* The classification backfill step by step, with interruption
\* ------------------------------------------------------------------------
\* The transactions step 5 collects (lines 176-190): those without a
\* location classification and with a non-blank category.
BackfillCandidates ==
    {t \in DOMAIN transactions :
       /\ transactions[t].location_classification = None
       /\ Trimmed(transactions[t].category) # <<>>}

\* Command.handle up to the first bulk_update (lines 42-190), not a dry
\* run: the votes, the resolution, and, inside the atomic block opened on
\* line 129, the rows of steps 3 and 4. What the block writes is held in
\* inflight until the block is left: the stored tables do not show it. The
\* query of step 5 has no order_by: queue is the candidates in any order.
BackfillBegin ==
    /\ inflight = NoRows
    /\ \E resolved \in Resolutions :
         IF GetOrCreateRaises
         THEN /\ response' = [op |-> "backfill_raised"]
              /\ UNCHANGED inflight
         ELSE \E classes \in {WithClassifications(location_classifications,
                                                  SetToSeq(VotedCategories), resolved)} :
              \E subs \in {WithSubClassifications(location_subclassifications,
                                                  SetToSeq(SubcatPairs), classes)} :
              \E queue \in Orderings(BackfillCandidates) :
                /\ inflight' = [location_classifications |-> classes,
                                location_subclassifications |-> subs,
                                transactions |-> transactions,
                                queue |-> queue, chunks |-> 0]
                /\ response' = [op |-> "backfill_begun"]
    /\ UNCHANGED <<accounts, file_uploads, transactions, location_classifications,
                   location_subclassifications, applications, statements, sequences>>

\* The first n members of q, and the rest.
Take(q, n) == SubSeq(q, 1, IF Len(q) < n THEN Len(q) ELSE n)
Drop(q, n) == SubSeq(q, (IF Len(q) < n THEN Len(q) ELSE n) + 1, Len(q))

\* The rows of written with the transactions ids back-filled.
WithChunk(written, ids, classes, subs) ==
    [t \in DOMAIN written |->
       IF \E i \in DOMAIN ids : ids[i] = t
       THEN BackFilled(written[t], classes, subs)
       ELSE written[t]]

\* One bulk_update that is committed when it returns.
BackfillWriteChunkCommitting ==
    /\ inflight # NoRows
    /\ inflight.queue # <<>>
    /\ \E written \in {WithChunk(inflight.transactions, Take(inflight.queue, chunk_size),
                                 inflight.location_classifications,
                                 inflight.location_subclassifications)} :
         /\ inflight' = [inflight EXCEPT !.transactions = written,
                                         !.queue = Drop(@, chunk_size),
                                         !.chunks = @ + 1]
         /\ transactions' = written
    /\ response' = [op |-> "backfill_chunk", chunks |-> inflight.chunks + 1]
    /\ UNCHANGED <<accounts, file_uploads, location_classifications,
                   location_subclassifications, applications, statements, sequences>>

\* One bulk_update (lines 192-199, 201-206): of the next chunk_size
\* transactions, or of the ones left when they are fewer. It runs inside
\* the atomic block.
BackfillWriteChunk ==
    /\ inflight # NoRows
    /\ inflight.queue # <<>>
    /\ inflight' =
         [inflight EXCEPT
            !.transactions = WithChunk(@, Take(inflight.queue, chunk_size),
                                       inflight.location_classifications,
                                       inflight.location_subclassifications),
            !.queue = Drop(@, chunk_size),
            !.chunks = @ + 1]
    /\ response' = [op |-> "backfill_chunk", chunks |-> inflight.chunks + 1]
    /\ UNCHANGED <<accounts, file_uploads, transactions, location_classifications,
                   location_subclassifications, applications, statements, sequences>>

\* The atomic block is left (line 206): everything it wrote is committed.
BackfillCommit ==
    /\ inflight # NoRows
    /\ inflight.queue = <<>>
    /\ location_classifications' = inflight.location_classifications
    /\ location_subclassifications' = inflight.location_subclassifications
    /\ transactions' = inflight.transactions
    /\ inflight' = NoRows
    /\ response' = [op |-> "backfill_done", chunks |-> inflight.chunks]
    /\ UNCHANGED <<accounts, file_uploads, applications, statements>>
    /\ sequences' = Sequences'

\* The command is interrupted (an exception, a signal, a lost connection)
\* while the atomic block is open: the block is rolled back.
BackfillInterrupt ==
    /\ inflight # NoRows
    /\ inflight' = NoRows
    /\ response' = [op |-> "backfill_interrupted", chunks |-> inflight.chunks,
                    written |-> inflight.transactions]
    /\ UNCHANGED <<accounts, file_uploads, transactions, location_classifications,
                   location_subclassifications, applications, statements, sequences>>

\* ------------------------------------------------------------------------
\* SpecChunks: one classification backfill that may be interrupted
\* ------------------------------------------------------------------------
InitChunks ==
    /\ accounts = [a \in {1, 2} |-> [type |-> "checking", file_upload_schema |-> None]]
    /\ location_classifications \in ExistingClassifications
    /\ location_subclassifications \in ExistingSubClassifications(location_classifications)
    /\ transactions \in VotingTables
    /\ file_uploads = NoRows
    /\ statements = NoRows
    /\ response = NoResponse
    /\ applications = [t \in DOMAIN transactions |-> 0]
    /\ sequences = Sequences
    /\ inflight = NoRows

NextChunks ==
    \/ BackfillBegin
    \/ BackfillWriteChunk
    \/ BackfillCommit
    \/ BackfillInterrupt

SpecChunks == InitChunks /\ [][NextChunks]_vars


\* ------------------------------------------------------------------------
\* C24
\* ------------------------------------------------------------------------
\* C24 as stated: every chunk of transaction updates is committed as its
\* own atomic transaction, so the stored transactions show each chunk once
\* it is written, and when the job is interrupted after k chunks have been
\* written exactly those k chunks remain persisted.
C24_ChunksCommitted ==
    [][/\ response'.op = "backfill_chunk" => transactions' = inflight'.transactions
       /\ response'.op = "backfill_interrupted" => transactions' = response'.written]_vars

\* C24 amended: the transaction updates are written in chunks of at most
\* chunk_size rows (every chunk but the last has chunk_size rows and a
\* chunk touches no other row) inside the one atomic transaction that also
\* holds the created classifications and subclassifications: nothing the
\* job wrote is stored before the job ends, a job that ends stores all its
\* chunks at once, every candidate back-filled, and a job that is
\* interrupted after k chunks have been written leaves the three tables as
\* they were before it began.
C24_AllOrNothing ==
    [][/\ response'.op \in {"backfill_begun", "backfill_chunk", "backfill_interrupted",
                            "backfill_raised"}
            => UNCHANGED <<transactions, location_classifications,
                           location_subclassifications>>
       /\ response'.op = "backfill_chunk"
            => /\ Len(inflight.queue) - Len(inflight'.queue) \in 1..chunk_size
               /\ \/ Len(inflight.queue) - Len(inflight'.queue) = chunk_size
                  \/ inflight'.queue = <<>>
               /\ \A t \in DOMAIN transactions :
                    inflight'.transactions[t] # inflight.transactions[t]
                      => \E i \in 1..(Len(inflight.queue) - Len(inflight'.queue)) :
                           inflight.queue[i] = t
       /\ response'.op = "backfill_done"
            => /\ transactions' = inflight.transactions
               /\ \A t \in DOMAIN transactions :
                    transactions'[t] = IF t \in BackfillCandidates
                                       THEN BackFilled(transactions[t],
                                                       location_classifications',
                                                       location_subclassifications')
                                       ELSE transactions[t]]_vars

\* A job interrupted after a chunk that changed a row was written, with
\* transactions still waiting for the next chunk.
C24_Witness ==
    /\ response # NoResponse
    /\ response.op = "backfill_interrupted"
    /\ response.chunks = 1
    /\ response.written # transactions
    /\ Cardinality(BackfillCandidates) > chunk_size


\* ------------------------------------------------------------------------
\* The taxonomy endpoints: classifications and subclassifications
\* ------------------------------------------------------------------------
\* The rows of table but those of ids, and table with one more row.
Without(table, ids) == [x \in DOMAIN table \ ids |-> table[x]]
WithRow(table, id, row) ==
    [x \in DOMAIN table \cup {id} |-> IF x = id THEN row ELSE table[x]]

\* POST /location-classifications/ (views.py 160-165, ModelViewSet.create):
\* the new row gets the next id of the table's sequence.
ClassificationCreate(name, type) ==
    /\ sequences.location_classifications < MaxClassifications
    /\ \E id \in {sequences.location_classifications + 1} :
         /\ location_classifications' =
              WithRow(location_classifications, id, [name |-> name, type |-> type])
         /\ sequences' = [sequences EXCEPT !.location_classifications = id]
         /\ response' = [op |-> "classification_create", code |-> 201, id |-> id]
    /\ UNCHANGED <<accounts, file_uploads, transactions, location_subclassifications,
                   applications, statements, inflight>>

\* POST /location-subclassifications/ (views.py 168-199): the serializer
\* takes location_classification_id from the stored classifications
\* (serializers.py 60-64) and answers 400 otherwise.
SubClassificationCreate(lc, name) ==
    /\ sequences.location_subclassifications < MaxSubClassifications
    /\ IF lc \in DOMAIN location_classifications
       THEN \E id \in {sequences.location_subclassifications + 1} :
              /\ location_subclassifications' =
                   WithRow(location_subclassifications, id,
                           [location_classification |-> lc, name |-> name])
              /\ sequences' = [sequences EXCEPT !.location_subclassifications = id]
              /\ response' = [op |-> "subclassification_create", code |-> 201, id |-> id]
       ELSE /\ response' = [op |-> "subclassification_create", code |-> 400, id |-> 0]
            /\ UNCHANGED <<location_subclassifications, sequences>>
    /\ UNCHANGED <<accounts, file_uploads, transactions, location_classifications,
                   applications, statements, inflight>>

\* on_delete=SET_NULL of Transaction.location_classification and
\* Transaction.location_subclassification (models.py 125-126) for the
\* deleted classifications lcs and subclassifications lscs.
SetNull(table, lcs, lscs) ==
    [t \in DOMAIN table |->
       [table[t] EXCEPT
          !.location_classification =
             IF @ # None /\ @[1] \in lcs THEN None ELSE @,
          !.location_subclassification =
             IF @ # None /\ @[1] \in lscs THEN None ELSE @]]

\* The subclassifications of a classification (related_name
\* 'location_subclassifications', models.py 78).
SubClassificationsOf(lc) ==
    {b \in DOMAIN location_subclassifications :
       location_subclassifications[b].location_classification = lc}

\* A deletion that leaves the subclassifications of the classification.
ClassificationDeleteKeepingSubs(lc) ==
    /\ IF lc \in DOMAIN location_classifications
       THEN /\ location_classifications' = Without(location_classifications, {lc})
            /\ transactions' = SetNull(transactions, {lc}, {})
            /\ response' = [op |-> "classification_delete", code |-> 204, id |-> lc,
                            cascaded |-> {}]
            /\ UNCHANGED location_subclassifications
       ELSE /\ response' = [op |-> "classification_delete", code |-> 404, id |-> lc,
                            cascaded |-> {}]
            /\ UNCHANGED <<location_classifications, location_subclassifications,
                           transactions>>
    /\ UNCHANGED <<accounts, file_uploads, applications, statements, sequences, inflight>>

\* DELETE /location-classifications/<id>/ (ModelViewSet.destroy): the
\* subclassifications go with it (on_delete=CASCADE, models.py 78) and the
\* transactions that refer to it or to one of them lose the reference.
\* cascaded is the set of subclassifications instance.delete() collected.
ClassificationDelete(lc) ==
    /\ IF lc \in DOMAIN location_classifications
       THEN /\ location_classifications' = Without(location_classifications, {lc})
            /\ location_subclassifications' =
                 Without(location_subclassifications, SubClassificationsOf(lc))
            /\ transactions' = SetNull(transactions, {lc}, SubClassificationsOf(lc))
            /\ response' = [op |-> "classification_delete", code |-> 204, id |-> lc,
                            cascaded |-> SubClassificationsOf(lc)]
       ELSE /\ response' = [op |-> "classification_delete", code |-> 404, id |-> lc,
                            cascaded |-> {}]
            /\ UNCHANGED <<location_classifications, location_subclassifications,
                           transactions>>
    /\ UNCHANGED <<accounts, file_uploads, applications, statements, sequences, inflight>>

\* DELETE /location-subclassifications/<id>/
SubClassificationDelete(lsc) ==
    /\ IF lsc \in DOMAIN location_subclassifications
       THEN /\ location_subclassifications' = Without(location_subclassifications, {lsc})
            /\ transactions' = SetNull(transactions, {}, {lsc})
            /\ response' = [op |-> "subclassification_delete", code |-> 204, id |-> lsc]
       ELSE /\ response' = [op |-> "subclassification_delete", code |-> 404, id |-> lsc]
            /\ UNCHANGED <<location_subclassifications, transactions>>
    /\ UNCHANGED <<accounts, file_uploads, location_classifications, applications,
                   statements, sequences, inflight>>

\* ------------------------------------------------------------------------
\* SpecTaxonomy: creations and deletions in the taxonomy, and PATCH
\* requests that attach the transactions to it
\* ------------------------------------------------------------------------
TaxonomyPatches ==
    {[location_classification |-> lc, location_subclassification |-> lsc] :
       lc \in {None} \cup {Some(x) : x \in 1..MaxClassifications},
       lsc \in {None} \cup {Some(x) : x \in 1..MaxSubClassifications}}

InitTaxonomy ==
    /\ accounts = [a \in {1} |-> [type |-> "checking", file_upload_schema |-> None]]
    /\ location_classifications = NoRows
    /\ location_subclassifications = NoRows
    /\ transactions = [t \in {1} |-> BackfillRow(1, Some(Food), Some(Out), Some(500), None)]
    /\ file_uploads = NoRows
    /\ statements = NoRows
    /\ response = NoResponse
    /\ applications = [t \in DOMAIN transactions |-> 0]
    /\ sequences = Sequences
    /\ inflight = NoRows

NextTaxonomy ==
    \/ \E name \in {Food, Misc} : ClassificationCreate(name, "expense")
    \/ \E lc \in 1..MaxClassifications : SubClassificationCreate(lc, Out)
    \/ \E lc \in 1..MaxClassifications : ClassificationDelete(lc)
    \/ \E lsc \in 1..MaxSubClassifications : SubClassificationDelete(lsc)
    \/ \E t \in DOMAIN transactions : \E data \in TaxonomyPatches : TransactionPatch(t, data)

SpecTaxonomy == InitTaxonomy /\ [][NextTaxonomy]_vars


\* ------------------------------------------------------------------------
\* C25
\* ------------------------------------------------------------------------
\* C25: after any sequence of creations and deletions every
\* subclassification refers to one stored classification; a deletion of a
\* classification deletes exactly its subclassifications, and keeps every
\* transaction, with the reference to the deleted classification and to
\* each deleted subclassification set to null and nothing else changed.
C25_Taxonomy ==
    /\ [](\A b \in DOMAIN location_subclassifications :
            location_subclassifications[b].location_classification
              \in DOMAIN location_classifications)
    /\ [][(response'.op = "classification_delete" /\ response'.code = 204) =>
            LET lc == response'.id
                gone == SubClassificationsOf(lc)
            IN  /\ DOMAIN location_classifications'
                     = DOMAIN location_classifications \ {lc}
                /\ DOMAIN location_subclassifications'
                     = DOMAIN location_subclassifications \ gone
                /\ \A b \in DOMAIN location_subclassifications' :
                     location_subclassifications'[b] = location_subclassifications[b]
                /\ DOMAIN transactions' = DOMAIN transactions
                /\ \A t \in DOMAIN transactions :
                     /\ transactions'[t].location_classification =
                          IF transactions[t].location_classification = Some(lc)
                          THEN None ELSE transactions[t].location_classification
                     /\ transactions'[t].location_subclassification =
                          IF /\ transactions[t].location_subclassification # None
                             /\ transactions[t].location_subclassification[1] \in gone
                          THEN None ELSE transactions[t].location_subclassification
                     /\ \A f \in DOMAIN transactions[t] \ {"location_classification",
                                                           "location_subclassification"} :
                          transactions'[t][f] = transactions[t][f]]_vars

\* Classification 2 was deleted with a subclassification of its own, while
\* classification 1 and a subclassification of it stay, the transaction
\* keeping its reference to classification 1 and having lost the one to
\* the deleted subclassification.
C25_Witness ==
    /\ response.op = "classification_delete"
    /\ response.code = 204
    /\ response.id = 2
    /\ response.cascaded # {}
    /\ DOMAIN location_classifications = {1}
    /\ DOMAIN location_subclassifications # {}
    /\ transactions[1].location_classification = Some(1)
    /\ transactions[1].location_subclassification = None


\* ------------------------------------------------------------------------
\* C26
\* ------------------------------------------------------------------------
\* C26: a call of the mapper changes no column of the transaction but
\* transaction_date, posted_date, description, description_2, category and
\* amount: subcategory, the four classification references, account,
\* file_upload and raw_data are as before the call, and no other row of
\* any table changes.
C26_MapperFrame ==
    [][response'.op = "apply" =>
         LET t == response'.txn IN
         /\ DOMAIN transactions' = DOMAIN transactions
         /\ \A f \in {"subcategory", "location_classification",
                      "location_subclassification", "time_classification",
                      "person_classification", "account", "file_upload", "raw_data"} :
              transactions'[t][f] = transactions[t][f]
         /\ DOMAIN transactions[t] =
              {"subcategory", "location_classification",
               "location_subclassification", "time_classification",
               "person_classification", "account", "file_upload", "raw_data",
               "transaction_date", "posted_date", "description", "description_2",
               "category", "amount"}
         /\ UNCHANGED <<accounts, file_uploads, location_classifications,
                        location_subclassifications>>]_vars

\* A call that returned and changed the six mapped columns of a transaction
\* that has a subcategory, the four references and a file upload.
C26_Witness ==
    /\ response.op = "apply"
    /\ ~response.raised
    /\ transactions[1].subcategory = Some(<<"s", "u", "b">>)
    /\ transactions[1].location_classification = Some(1)
    /\ transactions[1].location_subclassification = Some(1)
    /\ transactions[1].time_classification = Some(1)
    /\ transactions[1].person_classification = Some(1)
    /\ transactions[1].file_upload = Some(1)
    /\ transactions[1].description # Some(<<"o", "l", "d">>)
    /\ transactions[1].amount # Some(Finite(77700))
    /\ transactions[1].transaction_date # Some(EditedDate)


\* ------------------------------------------------------------------------
\* A re-process pass and a PATCH request, statement by statement
\* ------------------------------------------------------------------------
\* inflight maps the requests that have started and not ended ("process",
\* "patch") to their local variables.
\*
\* FileUploadViewSet.process up to the start of the loop (views.py 127-141):
\* the status is saved, and the loop's queryset is evaluated once: every
\* transaction of the upload is loaded, all columns, before the first call
\* of the mapper. The queryset has no ordering.
ProcessBegin(u) ==
    /\ u \in DOMAIN file_uploads
    /\ "process" \notin DOMAIN inflight
    /\ accounts[file_uploads[u].account].file_upload_schema # None
    /\ \A t \in TransactionsOf(transactions, u) : applications[t] < MaxApplications
    /\ file_uploads' = [file_uploads EXCEPT ![u].status = "processing"]
    /\ \E queue \in Orderings(TransactionsOf(transactions, u)) :
         inflight' = WithRow(inflight, "process",
                             [file_upload |-> u,
                              schema |-> accounts[file_uploads[u].account].file_upload_schema[1],
                              rows |-> [t \in TransactionsOf(transactions, u) |->
                                          transactions[t]],
                              queue |-> queue, errors |-> <<>>])
    /\ response' = [op |-> "process_begun", file_upload |-> u]
    /\ UNCHANGED <<accounts, transactions, location_classifications,
                   location_subclassifications, applications, statements, sequences>>

\* One turn of the loop where the row is read again before it is mapped.
ProcessRowRefreshing ==
    /\ "process" \in DOMAIN inflight
    /\ inflight["process"].queue # <<>>
    /\ \E t \in {Head(inflight["process"].queue)} :
       \E out \in {apply_schema_to_transaction(transactions[t],
                                               inflight["process"].schema)} :
         /\ transactions' = IF out.raised THEN transactions
                            ELSE [transactions EXCEPT ![t] = out.row]
         /\ applications' = [applications EXCEPT ![t] = @ + 1]
         /\ inflight' = [inflight EXCEPT
                           !["process"].queue = Tail(@),
                           !["process"].errors =
                              IF out.raised THEN Append(@, "invalid decimal") ELSE @]
         /\ response' = [op |-> "process_row", txn |-> t, raised |-> out.raised,
                         replaced |-> transactions[t]]
    /\ UNCHANGED <<accounts, file_uploads, location_classifications,
                   location_subclassifications, statements, sequences>>

\* One turn of the loop (views.py 141-145): the mapper is called on the
\* transaction object loaded when the loop started, and its save()
\* (csv_utils.py 127) writes every column of that object. replaced is the
\* stored row the save wrote over.
ProcessRow ==
    /\ "process" \in DOMAIN inflight
    /\ inflight["process"].queue # <<>>
    /\ \E t \in {Head(inflight["process"].queue)} :
       \E out \in {apply_schema_to_transaction(inflight["process"].rows[t],
                                               inflight["process"].schema)} :
         /\ transactions' = IF out.raised THEN transactions
                            ELSE [transactions EXCEPT ![t] = out.row]
         /\ applications' = [applications EXCEPT ![t] = @ + 1]
         /\ inflight' = [inflight EXCEPT
                           !["process"].queue = Tail(@),
                           !["process"].errors =
                              IF out.raised THEN Append(@, "invalid decimal") ELSE @]
         /\ response' = [op |-> "process_row", txn |-> t, raised |-> out.raised,
                         replaced |-> transactions[t]]
    /\ UNCHANGED <<accounts, file_uploads, location_classifications,
                   location_subclassifications, statements, sequences>>

\* The end of the pass (views.py 147-157).
ProcessEnd ==
    /\ "process" \in DOMAIN inflight
    /\ inflight["process"].queue = <<>>
    /\ \E p \in {inflight["process"]} :
         /\ file_uploads' =
              [file_uploads EXCEPT
                 ![p.file_upload].status = IF p.errors # <<>> THEN "failed" ELSE "completed",
                 ![p.file_upload].errors = IF p.errors # <<>> THEN Some(p.errors) ELSE None]
         /\ response' = [op |-> "process", code |-> 200, file_upload |-> p.file_upload]
    /\ inflight' = Without(inflight, {"process"})
    /\ UNCHANGED <<accounts, transactions, location_classifications,
                   location_subclassifications, applications, statements, sequences>>

\* TransactionDetailView.patch, line 336: the transaction is loaded.
PatchLoad(t, data) ==
    /\ t \in DOMAIN transactions
    /\ "patch" \notin DOMAIN inflight
    /\ transactions[t] # Patched(transactions[t], data)
    /\ inflight' = WithRow(inflight, "patch", [txn |-> t, row |-> transactions[t],
                                               data |-> data])
    /\ response' = [op |-> "patch_loaded", txn |-> t]
    /\ UNCHANGED <<accounts, file_uploads, transactions, location_classifications,
                   location_subclassifications, applications, statements, sequences>>

\* TransactionDetailView.patch, lines 337-340: the body is validated and
\* serializer.save() sets its fields on the loaded object and saves it,
\* every column. replaced is the stored row the save wrote over.
PatchSave ==
    /\ "patch" \in DOMAIN inflight
    /\ \E p \in {inflight["patch"]} :
         IF PatchIsValid(p.data)
         THEN /\ transactions' = [transactions EXCEPT ![p.txn] = Patched(p.row, p.data)]
              /\ response' = [op |-> "patch", code |-> 200, txn |-> p.txn,
                              replaced |-> transactions[p.txn]]
         ELSE /\ response' = [op |-> "patch", code |-> 400, txn |-> p.txn,
                              replaced |-> transactions[p.txn]]
              /\ UNCHANGED transactions
    /\ inflight' = Without(inflight, {"patch"})
    /\ UNCHANGED <<accounts, file_uploads, location_classifications,
                   location_subclassifications, applications, statements, sequences>>

\* ------------------------------------------------------------------------
\* SpecRace: re-process passes over one upload and PATCH requests on its
\* transactions, as two workers of the server interleave them
\* ------------------------------------------------------------------------
RaceRows ==
    <<[Date |-> <<"2", "0", "2", "5", "-", "0", "1", "-", "1", "5">>, Amt |-> <<"9">>],
      [Date |-> <<"2", "0", "2", "5", "-", "0", "1", "-", "1", "6">>, Amt |-> <<"7">>]>>
RacePatches ==
    {[location_classification |-> Some(1)],
     [location_classification |-> Some(1), location_subclassification |-> Some(1)],
     [location_classification |-> Some(2)]}

InitRace ==
    /\ \E s \in SystemSchemas :
         accounts = [a \in {1} |-> [type |-> "checking", file_upload_schema |-> Some(s)]]
    /\ file_uploads = [u \in {1} |-> [account |-> 1, transaction_count |-> 2,
                                      status |-> "pending", errors |-> None]]
    /\ transactions = [t \in {1, 2} |-> NewTransaction(1, Some(1), RaceRows[t])]
    /\ location_classifications =
         [c \in {1} |-> [name |-> <<"F", "o", "o", "d">>, type |-> "expense"]]
    /\ location_subclassifications =
         [b \in {1} |-> [location_classification |-> 1, name |-> <<"O", "u", "t">>]]
    /\ statements = NoRows
    /\ response = NoResponse
    /\ applications = [t \in {1, 2} |-> 0]
    /\ sequences = Sequences
    /\ inflight = NoRows

NextRace ==
    \/ \E u \in DOMAIN file_uploads : ProcessBegin(u)
    \/ ProcessRow
    \/ ProcessEnd
    \/ \E t \in DOMAIN transactions : \E data \in RacePatches : PatchLoad(t, data)
    \/ PatchSave

SpecRace == InitRace /\ [][NextRace]_vars


\* ------------------------------------------------------------------------
\* C28
\* ------------------------------------------------------------------------
\* The four classification references of a transaction.
ClassificationRefs(txn) ==
    <<txn.location_classification, txn.location_subclassification,
      txn.time_classification, txn.person_classification>>

\* C28 as stated: a classification edit that committed while a re-process
\* pass is running is never discarded, and the transaction carries it
\* together with the mapper's normalized fields: the save of the pass
\* leaves the stored references as they are, and the save of the edit
\* leaves the stored normalized fields as they are.
C28_EditKept ==
    [][/\ (response'.op = "process_row" /\ ~response'.raised) =>
            ClassificationRefs(transactions'[response'.txn])
              = ClassificationRefs(transactions[response'.txn])
       /\ (response'.op = "patch" /\ response'.code = 200) =>
            MappedFields(transactions'[response'.txn])
              = MappedFields(transactions[response'.txn])]_vars

\* C28 amended: the last writer wins on the whole row. The pass stores
\* each transaction as it read it when the loop started, with the six
\* mapped fields set: the references of an edit are kept exactly when they
\* are the ones the pass read, an edit that committed after that read and
\* before the save of the row is discarded. The edit stores the
\* transaction as it read it, with the fields of its body set: the
\* normalized fields are kept exactly when they are the ones the edit
\* read, a mapping saved between the read and the save of the edit is
\* discarded.
C28_LastWriterWins ==
    [][/\ (response'.op = "process_row" /\ ~response'.raised) =>
            LET t == response'.txn
                read == inflight["process"].rows[t]
            IN  /\ transactions'[t] = AssignMapped(read, inflight["process"].schema)
                /\ ClassificationRefs(transactions'[t]) = ClassificationRefs(read)
                /\ ClassificationRefs(transactions'[t]) = ClassificationRefs(transactions[t])
                     <=> ClassificationRefs(transactions[t]) = ClassificationRefs(read)
       /\ (response'.op = "patch" /\ response'.code = 200) =>
            LET t == response'.txn
                read == inflight["patch"].row
            IN  /\ transactions'[t] = Patched(read, inflight["patch"].data)
                /\ MappedFields(transactions'[t]) = MappedFields(read)
                /\ MappedFields(transactions'[t]) = MappedFields(transactions[t])
                     <=> MappedFields(transactions[t]) = MappedFields(read)]_vars

\* The pass has just saved a transaction over a row that carried the
\* reference of an edit that had committed: the reference is gone and the
\* row is normalized.
C28_Witness ==
    /\ response.op = "process_row"
    /\ ~response.raised
    /\ "patch" \notin DOMAIN inflight
    /\ response.replaced.location_classification = Some(1)
    /\ transactions[response.txn].location_classification = None
    /\ transactions[response.txn].amount # None


\* ------------------------------------------------------------------------
\* Transactions posted to, moved between and deleted from uploads
\* ------------------------------------------------------------------------
\* TransactionDetailView.delete (views.py 343-346)
TransactionDelete(t) ==
    /\ IF t \in DOMAIN transactions
       THEN /\ transactions' = Without(transactions, {t})
            /\ applications' = Without(applications, {t})
            /\ response' = [op |-> "delete", code |-> 204, txn |-> t]
       ELSE /\ response' = [op |-> "delete", code |-> 404, txn |-> t]
            /\ UNCHANGED <<transactions, applications>>
    /\ UNCHANGED <<accounts, file_uploads, location_classifications,
                   location_subclassifications, statements, sequences, inflight>>

\* The files SpecCount uploads: up to MaxLines lines of one kind.
CountFiles ==
    {[headers |-> UploadHeaders,
      lines |-> [i \in 1..n |->
                   <<<<"2", "0", "2", "5", "-", "0", "1", "-", "1", "5">>,
                     <<"-", "4", "2", ".", "5", "0">>>>]] : n \in 0..MaxLines}

\* The bodies of its POST requests: account_id, raw_data and the
\* file_upload_id of a stored upload, or none (serializers.py 99-105).
CountPosts ==
    {NewTransaction(1, u, EditedRow) :
       u \in {None} \cup {Some(x) : x \in DOMAIN file_uploads}}

\* The bodies of its PATCH requests: a file_upload_id.
CountPatches ==
    {[file_upload |-> u] : u \in {None} \cup {Some(x) : x \in DOMAIN file_uploads}}

NextCount ==
    \/ \E file \in {None} \cup {Some(x) : x \in CountFiles} : FileUploadCreate(1, file)
    \/ \E data \in CountPosts : TransactionPost(data)
    \/ \E t \in DOMAIN transactions : \E data \in CountPatches : TransactionPatch(t, data)
    \/ \E t \in 1..(sequences.transactions + 1) : TransactionDelete(t)

SpecCount == Init /\ [][NextCount]_vars

\* ------------------------------------------------------------------------
\* C29
\* ------------------------------------------------------------------------
\* C29: the transaction_count of every file upload is the number of
\* transactions linked to the upload.
C29_TransactionCount ==
    \A u \in DOMAIN file_uploads :
      file_uploads[u].transaction_count = Cardinality(TransactionsOf(transactions, u))


\* ------------------------------------------------------------------------
\* C30
\* ------------------------------------------------------------------------
\* C30: in every reachable state the mapper has been called at least once
\* on every transaction of a file upload whose status is completed.
C30_CompletedIsNormalized ==
    \A u \in DOMAIN file_uploads :
      file_uploads[u].status = "completed" =>
        \A t \in TransactionsOf(transactions, u) : applications[t] >= 1

====
